---- MODULE Spec2Model ----
(***************************************************************************)
(* Model of the FiscalFundamentals dashboard (src/app/dashboard/page.tsx   *)
(* and src/app/lib/xbrl.ts): the tag/label resolvers, the balance-sheet    *)
(* derivation, the report period selection and the Dashboard component's   *)
(* state (data, selected, selectedYear) with what each render computes.    *)
(*                                                                         *)
(* Strings are sequences of tokens (a word, a prefix such as "defref_", a  *)
(* blank): lower-casing, prefix stripping, whitespace collapsing and       *)
(* substring search are computed on the tokens.  A JavaScript value is a   *)
(* record [t, v]: t is "number", "null" or "undefined".                    *)
(***************************************************************************)
EXTENDS Integers, Sequences, FiniteSets, TLC

VARIABLES
  facts,        \* the fact map a resolver is called with (entries in key order)
  cands,        \* the candidate list (tags or labels) of the call
  reports,      \* the parsed report list a period selection runs on
  targetYear,   \* the year the period selection looks for
  out,          \* what the last call returned
  pc,           \* which call produced out ("idle" before any call)
  data,         \* Dashboard state: the loaded FinancialRow list
  searchParam,  \* the ticker URL parameter (useSearchParams)
  selected,     \* Dashboard state: the selected ticker
  selectedYear, \* Dashboard state: the selected year
  fetchState,   \* "pending" until the fetch of the mount effect settles
  effYear,      \* the [selected, data] effect is scheduled
  effParam,     \* the [searchParams, selected] effect is scheduled
  view          \* what the last render produced

vars == <<facts, cands, reports, targetYear, out, pc, data, searchParam,
          selected, selectedYear, fetchState, effYear, effParam, view>>

resolverVars == <<facts, cands, reports, targetYear, out, pc>>
dashboardVars == <<data, searchParam, selected, selectedYear, fetchState,
                   effYear, effParam, view>>

---------------------------------------------------------------------------
(* Bounds *)

MaxFacts == 3        \* entries of a balance sheet fact map
MaxIncomeFacts == 2  \* entries of an income statement fact map
MaxLookupFacts == 2  \* entries of a fact map of the tag and label lookups
MaxVal == 2          \* fact values range over 0..MaxVal
MaxReports == 2    \* reports of one statement
MaxRows == 2       \* rows of one API response

---------------------------------------------------------------------------
(* JavaScript values *)

Num(n) == [t |-> "number", v |-> n]
Null == [t |-> "null", v |-> 0]
Undefined == [t |-> "undefined", v |-> 0]
NaN == [t |-> "NaN", v |-> 0]

\* typeof x === 'number'
IsNumber(x) == x.t = "number"

\* x ?? d
Coalesce(x, d) == IF x.t \in {"null", "undefined"} THEN d ELSE x

\* !x for x a number, null or undefined
Falsy(x) == x.t # "number" \/ x.v = 0

Values == {Num(n) : n \in 0..MaxVal}
OptValues == Values \cup {Undefined}

---------------------------------------------------------------------------
(* Strings as token sequences *)

\* String.prototype.toLowerCase on one token
LowerTok(tok) ==
  CASE tok = "DefRef_" -> "defref_"
    [] tok = "us-gaap_Revenues" -> "us-gaap_revenues"
    [] tok = "us-gaap_SalesRevenueNet" -> "us-gaap_salesrevenuenet"
    [] tok = "us-gaap_RevenuesNetOfInterestExpense" -> "us-gaap_revenuesnetofinterestexpense"
    [] tok = "axp_TotalRevenuesNetOfInterestExpenseAfterProvisionsForLosses"
         -> "axp_totalrevenuesnetofinterestexpenseafterprovisionsforlosses"
    [] tok = "us-gaap_RevenueFromContractWithCustomerExcludingAssessedTax"
         -> "us-gaap_revenuefromcontractwithcustomerexcludingassessedtax"
    [] tok = "us-gaap_SalesRevenueServicesNet" -> "us-gaap_salesrevenueservicesnet"
    [] tok = "us-gaap_NetIncomeLoss" -> "us-gaap_netincomeloss"
    [] tok = "us-gaap_ProfitLoss" -> "us-gaap_profitloss"
    [] tok = "us-gaap_NetIncomeLossAvailableToCommonStockholdersBasic"
         -> "us-gaap_netincomelossavailabletocommonstockholdersbasic"
    [] tok = "ifrs-full_ProfitLoss" -> "ifrs-full_profitloss"
    [] tok = "ifrs-full_ProfitLossAttributableToOwnersOfParent"
         -> "ifrs-full_profitlossattributabletoownersofparent"
    [] tok = "aapl_OtherLine" -> "aapl_otherline"
    [] tok = "Total" -> "total"
    [] tok = "Assets" -> "assets"
    [] tok = "Revenues" -> "revenues"
    [] tok = "Revenue" -> "revenue"
    [] tok = "Net" -> "net"
    [] tok = "Cost" -> "cost"
    [] tok = "Shares" -> "shares"
    [] tok = "Issued" -> "issued"
    [] tok = "And" -> "and"
    [] tok = "Outstanding" -> "outstanding"
    [] tok = "Common" -> "common"
    [] tok = "In" -> "in"
    [] tok = "TOTAL" -> "total"
    [] tok = "Stockholders" -> "stockholders"
    [] tok = "Equity" -> "equity"
    [] tok = "us-gaap_StockholdersEquity" -> "us-gaap_stockholdersequity"
    [] tok = "US-GAAP_STOCKHOLDERSEQUITY" -> "us-gaap_stockholdersequity"
    [] tok = "DEFREF_" -> "defref_"
    [] tok = "Aapl_" -> "aapl_"
    [] OTHER -> tok

\* String.prototype.toLowerCase
toLowerCase(str) == [i \in 1..Len(str) |-> LowerTok(str[i])]

\* the tokens \s matches (blank, non-breaking space, tab)
IsSpace(tok) == tok \in {" ", "nbsp", "tab"}

\* the token tok begins with the word w ("revenues" begins with "revenue")
TokStartsWith(tok, w) == tok = w \/ <<tok, w>> \in {<<"revenues", "revenue">>}

\* the token tok ends with the word w
TokEndsWith(tok, w) == tok = w

\* String.prototype.includes: kw occurs in str at some position; the first
\* word of kw may end a token of str and the last word may begin one
includes(str, kw) ==
  \E p \in 1..Len(str) :
    /\ p + Len(kw) - 1 <= Len(str)
    /\ \A j \in 1..Len(kw) :
         LET tok == str[p + j - 1] IN
         IF Len(kw) = 1 THEN TokStartsWith(tok, kw[j]) \/ TokEndsWith(tok, kw[j])
         ELSE IF j = 1 THEN TokEndsWith(tok, kw[j])
         ELSE IF j = Len(kw) THEN TokStartsWith(tok, kw[j])
         ELSE tok = kw[j]

---------------------------------------------------------------------------
(* Fact maps: Record<string, {label?, value?}> as the sequence of its       *)
(* entries in property order; an absent label is the empty string          *)

Fact(k, l, x) == [key |-> k, label |-> l, value |-> x]

\* key in map
HasKey(map, k) == \E i \in 1..Len(map) : map[i].key = k

\* map[k], for a key the map has
Entry(map, k) == map[CHOOSE i \in 1..Len(map) : map[i].key = k]

\* the keys of an object are unique
UniqueKeys(m) == \A i, j \in 1..Len(m) : m[i].key = m[j].key => i = j

\* m is a map of at most n entries over the facts F
IsMapOver(m, F, n) ==
  \E k \in 0..n : \E g \in [1..k -> F] : UniqueKeys(g) /\ m = g

---------------------------------------------------------------------------
(* src/app/lib/xbrl.ts *)

\* `defref_${t}`
DefrefKey(t) == <<"defref_">> \o t

RECURSIVE getTagValueFrom(_, _, _)
getTagValueFrom(map, tags, i) ==
  IF i > Len(tags) THEN Null
  ELSE LET t == tags[i] IN
    IF HasKey(map, t) /\ IsNumber(Entry(map, t).value)
      THEN Entry(map, t).value
    ELSE IF HasKey(map, DefrefKey(t)) /\ IsNumber(Entry(map, DefrefKey(t)).value)
      THEN Entry(map, DefrefKey(t)).value
    ELSE getTagValueFrom(map, tags, i + 1)

\* getTagValue that answers only the first call of a behaviour
getTagValueOnce(map, tags) ==
  IF pc = "idle" THEN getTagValueFrom(map, tags, 1) ELSE Null

\* getTagValue giving up after the first tag
getTagValueMut(map, tags) == getTagValueFrom(map, SubSeq(tags, 1, 1), 1)

getTagValue(map, tags) == getTagValueFrom(map, tags, 1)

---------------------------------------------------------------------------
(* src/app/dashboard/page.tsx: strictGet *)

\* ReplaceQuotes that leaves the curly quotes
ReplaceQuotesMut(str) == str

\* .replace(/[\u2019\u2018]/g, "'"): the curly quotes are the tokens "rsquo", "lsquo"
ReplaceQuotes(str) ==
  [i \in 1..Len(str) |-> IF str[i] \in {"rsquo", "lsquo"} THEN "'" ELSE str[i]]

\* .replace(/\s+/g, ' ')
RECURSIVE CollapseFrom(_, _, _)
CollapseFrom(str, i, acc) ==
  IF i > Len(str) THEN acc
  ELSE IF IsSpace(str[i])
    THEN IF i > 1 /\ IsSpace(str[i - 1])
           THEN CollapseFrom(str, i + 1, acc)
           ELSE CollapseFrom(str, i + 1, Append(acc, " "))
    ELSE CollapseFrom(str, i + 1, Append(acc, str[i]))

CollapseSpaces(str) == CollapseFrom(str, 1, <<>>)

\* String.prototype.trim
RECURSIVE trim(_)
trim(str) ==
  IF str = <<>> THEN str
  ELSE IF IsSpace(str[1]) THEN trim(Tail(str))
  ELSE IF IsSpace(str[Len(str)]) THEN trim(SubSeq(str, 1, Len(str) - 1))
  ELSE str

normalize(str) == trim(CollapseSpaces(ReplaceQuotes(toLowerCase(str))))

RECURSIVE strictGetFrom(_, _, _)
strictGetFrom(map, targets, i) ==
  IF i > Len(map) THEN Null
  ELSE LET label == map[i].label IN
    IF label = <<>> THEN strictGetFrom(map, targets, i + 1)
    ELSE IF \E j \in 1..Len(targets) : targets[j] = normalize(label)
      THEN map[i].value
    ELSE strictGetFrom(map, targets, i + 1)

strictGet(map, labels) ==
  strictGetFrom(map, [j \in 1..Len(labels) |-> normalize(labels[j])], 1)

---------------------------------------------------------------------------
(* src/app/dashboard/page.tsx: extractMetrics *)

revenueKeys ==
  << <<"axp_TotalRevenuesNetOfInterestExpenseAfterProvisionsForLosses">>,
     <<"us-gaap_RevenuesNetOfInterestExpense">>,
     <<"us-gaap_Revenues">>,
     <<"us-gaap_RevenueFromContractWithCustomerExcludingAssessedTax">>,
     <<"us-gaap_SalesRevenueNet">>,
     <<"us-gaap_SalesRevenueServicesNet">> >>

incomeKeys ==
  << <<"us-gaap_NetIncomeLoss">>,
     <<"us-gaap_ProfitLoss">>,
     <<"us-gaap_NetIncomeLossAvailableToCommonStockholdersBasic">>,
     <<"ifrs-full_ProfitLoss">>,
     <<"ifrs-full_ProfitLossAttributableToOwnersOfParent">> >>

revenueLabels ==
  << <<"total", " ", "net", " ", "revenue">>,
     <<"net", " ", "sales">>,
     <<"revenue">>,
     <<"total", " ", "revenues">> >>

incomeLabels ==
  << <<"net", " ", "income", " ", "applicable">>,
     <<"net", " ", "income">>,
     <<"net", " ", "earnings">>,
     <<"net", " ", "profit">> >>

\* key.toLowerCase().match(/defref_(.*)/): the text after the first defref_
normKey(key) ==
  LET lk == toLowerCase(key)
      hits == {p \in 1..Len(lk) : lk[p] = "defref_"}
  IN IF hits = {} THEN lk
     ELSE LET p == CHOOSE q \in hits : \A r \in hits : q <= r
          IN SubSeq(lk, p + 1, Len(lk))

normalizedEntries(rawMap) ==
  [i \in 1..Len(rawMap) |-> [normKey |-> normKey(rawMap[i].key), val |-> rawMap[i]]]

\* normalizedEntries.find(([k]) => k === searchKey): <<entry>> or <<>>
RECURSIVE findEntryFrom(_, _, _)
findEntryFrom(entries, searchKey, i) ==
  IF i > Len(entries) THEN <<>>
  ELSE IF entries[i].normKey = searchKey THEN <<entries[i]>>
  ELSE findEntryFrom(entries, searchKey, i + 1)

\* findByKeys: <<val>> of the first priority key that has an entry, or <<>>
RECURSIVE findByKeysFrom(_, _, _)
findByKeysFrom(entries, priorityKeys, i) ==
  IF i > Len(priorityKeys) THEN <<>>
  ELSE LET entry == findEntryFrom(entries, toLowerCase(priorityKeys[i]), 1) IN
    IF entry # <<>> THEN <<entry[1].val>>
    ELSE findByKeysFrom(entries, priorityKeys, i + 1)

findByKeys(entries, priorityKeys) == findByKeysFrom(entries, priorityKeys, 1)

\* if (match) metric = match.value ?? 0, from the initial 0
conceptTier(match) ==
  IF match # <<>> THEN Coalesce(match[1].value, Num(0)) ELSE Num(0)

\* the "fuzzy label search" loop: the first entry whose lower-cased label
\* includes a keyword sets the metric to val.value ?? metric, then break
RECURSIVE fuzzyFrom(_, _, _, _)
fuzzyFrom(entries, keywords, metric, i) ==
  IF i > Len(entries) THEN metric
  ELSE LET label == toLowerCase(entries[i].val.label) IN
    IF \E k \in 1..Len(keywords) : includes(label, keywords[k])
      THEN Coalesce(entries[i].val.value, metric)
      ELSE fuzzyFrom(entries, keywords, metric, i + 1)

\* labelFallback without the if (!metric) guard
labelFallbackMut(entries, keywords, metric) == fuzzyFrom(entries, keywords, metric, 1)

\* if (!metric) { fuzzy label search }
labelFallback(entries, keywords, metric) ==
  IF Falsy(metric) THEN fuzzyFrom(entries, keywords, metric, 1) ELSE metric

extractMetrics(rawMap) ==
  LET entries == normalizedEntries(rawMap)
      revMatch == findByKeys(entries, revenueKeys)
      niMatch == findByKeys(entries, incomeKeys)
  IN [revenue |-> labelFallback(entries, revenueLabels, conceptTier(revMatch)),
      netIncome |-> labelFallback(entries, incomeLabels, conceptTier(niMatch))]

---------------------------------------------------------------------------
(* src/app/dashboard/page.tsx: balance sheet derivation, the same code in   *)
(* balanceChartData (lines 198-230) and in the balance sheet table          *)
(* (lines 653-699)                                                          *)

equityTags ==
  << <<"us-gaap_StockholdersEquity">>,
     <<"us-gaap_StockholdersEquityIncludingPortionAttributableToNoncontrollingInterest">> >>

liabilitiesTags == << <<"us-gaap_Liabilities">> >>

assetsTags == << <<"us-gaap_Assets">> >>

assetsLabels == << <<"Total", " ", "assets">>, <<"Assets">> >>

\* deriveEquity that takes the assets for the equity when there are no liabilities
deriveEquityGuess(totalEquity, totalAssets, explicitLiabilities) ==
  IF ~IsNumber(totalEquity) /\ IsNumber(totalAssets)
    THEN (IF IsNumber(explicitLiabilities)
            THEN Num(totalAssets.v - explicitLiabilities.v) ELSE totalAssets)
    ELSE totalEquity

\* deriveEquity with the operands of the subtraction exchanged
deriveEquityMut(totalEquity, totalAssets, explicitLiabilities) ==
  IF ~IsNumber(totalEquity) /\ IsNumber(totalAssets) /\ IsNumber(explicitLiabilities)
    THEN Num(explicitLiabilities.v - totalAssets.v)
    ELSE totalEquity

\* if (typeof totalEquity !== "number" && typeof totalAssets === "number"
\*     && typeof explicitLiabilities === "number") totalEquity = ...
deriveEquity(totalEquity, totalAssets, explicitLiabilities) ==
  IF ~IsNumber(totalEquity) /\ IsNumber(totalAssets) /\ IsNumber(explicitLiabilities)
    THEN Num(totalAssets.v - explicitLiabilities.v)
    ELSE totalEquity

\* deriveLiabilities that derives whenever it can
deriveLiabilitiesFirst(explicitLiabilities, totalAssets, totalEquity) ==
  IF IsNumber(totalAssets) /\ IsNumber(totalEquity)
    THEN Num(totalAssets.v - totalEquity.v)
  ELSE IF IsNumber(explicitLiabilities) THEN explicitLiabilities
  ELSE Null

\* deriveLiabilities without the else-if branch that derives from equity
deriveLiabilitiesMut(explicitLiabilities, totalAssets, totalEquity) ==
  IF IsNumber(explicitLiabilities) THEN explicitLiabilities ELSE Null

\* let totalLiabilities; if ... else if ... else totalLiabilities = null
deriveLiabilities(explicitLiabilities, totalAssets, totalEquity) ==
  IF IsNumber(explicitLiabilities) THEN explicitLiabilities
  ELSE IF IsNumber(totalAssets) /\ IsNumber(totalEquity)
    THEN Num(totalAssets.v - totalEquity.v)
  ELSE Null

\* the derivation applied to the three lookups
balanceMetrics(totalAssets, explicitEquity, explicitLiabilities) ==
  LET totalEquity == deriveEquity(explicitEquity, totalAssets, explicitLiabilities)
  IN [totalAssets |-> totalAssets,
      totalLiabilities |-> deriveLiabilities(explicitLiabilities, totalAssets, totalEquity),
      totalEquity |-> totalEquity]

\* the balance sheet table of the selected year: totalAssets by label
balanceTable(reportMap) ==
  balanceMetrics(strictGet(reportMap, assetsLabels),
                 getTagValue(reportMap, equityTags),
                 getTagValue(reportMap, liabilitiesTags))

\* balanceChartData: totalAssets by tag
balanceChartMetrics(reportMap) ==
  balanceMetrics(getTagValue(reportMap, assetsTags),
                 getTagValue(reportMap, equityTags),
                 getTagValue(reportMap, liabilitiesTags))

\* one entry of balanceChartData: each metric ?? 0
balanceChartRow(reportMap, year) ==
  LET m == balanceChartMetrics(reportMap)
  IN [year |-> year,
      assets |-> Coalesce(m.totalAssets, Num(0)),
      liabilities |-> Coalesce(m.totalLiabilities, Num(0)),
      equity |-> Coalesce(m.totalEquity, Num(0))]

---------------------------------------------------------------------------
(* src/app/dashboard/page.tsx: extractSharesOutstanding.  In a share label  *)
(* every digit and every comma is a token of its own, so that [\d,]+ and    *)
(* parseInt are computed on the characters; a word is one token.  A regular *)
(* expression is the sequence of its elements: a literal word (compared     *)
(* case-insensitively), \s+, \s* or the capture group ([\d,]+)              *)

Million == 1000000

Digits == {"0", "1", "2", "3", "4", "5", "6", "7", "8", "9"}

DigitVal(tok) ==
  CASE tok = "0" -> 0 [] tok = "1" -> 1 [] tok = "2" -> 2 [] tok = "3" -> 3
    [] tok = "4" -> 4 [] tok = "5" -> 5 [] tok = "6" -> 6 [] tok = "7" -> 7
    [] tok = "8" -> 8 [] tok = "9" -> 9

\* [\d,]
IsDigitOrComma(tok) == tok \in Digits \cup {","}

Lit(w) == [k |-> "lit", w |-> w]
Ws1 == [k |-> "ws+", w |-> ""]
Ws0 == [k |-> "ws*", w |-> ""]
NumCap == [k |-> "num", w |-> ""]

\* the literal text "shares issued and outstanding"
sharesIssuedAndOutstanding ==
  <<Lit("shares"), Lit(" "), Lit("issued"), Lit(" "), Lit("and"), Lit(" "),
    Lit("outstanding")>>

\* /([\d,]+)\s+and\s+([\d,]+)\s+shares issued and outstanding/i
multiPattern ==
  <<NumCap, Ws1, Lit("and"), Ws1, NumCap, Ws1>> \o sharesIssuedAndOutstanding

\* /([\d,]+)\s+shares issued and outstanding\s+as of/i
datedPattern ==
  <<NumCap, Ws1>> \o sharesIssuedAndOutstanding \o <<Ws1, Lit("as"), Lit(" "), Lit("of")>>

\* /([\d,]+)\s+shares issued and outstanding/i
fallbackPattern == <<NumCap, Ws1>> \o sharesIssuedAndOutstanding

\* /outstanding:\s*([\d,]+)\s+shares/i
outstandingPattern ==
  <<Lit("outstanding"), Lit(":"), Ws0, NumCap, Ws1, Lit("shares")>>

\* the end of the run of whitespace that starts at p
RECURSIVE spaceRunEnd(_, _)
spaceRunEnd(str, p) ==
  IF p + 1 <= Len(str) /\ IsSpace(str[p + 1]) THEN spaceRunEnd(str, p + 1) ELSE p

\* the end of the run of digits and commas that starts at p
RECURSIVE numRunEnd(_, _)
numRunEnd(str, p) ==
  IF p + 1 <= Len(str) /\ IsDigitOrComma(str[p + 1]) THEN numRunEnd(str, p + 1) ELSE p

\* the pattern pat matched at position p of str: <<captures>>, or <<>>
RECURSIVE matchHere(_, _, _, _)
matchHere(str, p, pat, caps) ==
  IF pat = <<>> THEN <<caps>>
  ELSE LET e == pat[1]
           rest == Tail(pat)
           here == p <= Len(str)
       IN CASE e.k = "lit" ->
                 IF here /\ LowerTok(str[p]) = e.w
                   THEN matchHere(str, p + 1, rest, caps) ELSE <<>>
            [] e.k = "ws+" ->
                 IF here /\ IsSpace(str[p])
                   THEN matchHere(str, spaceRunEnd(str, p) + 1, rest, caps)
                   ELSE <<>>
            [] e.k = "ws*" ->
                 IF here /\ IsSpace(str[p])
                   THEN matchHere(str, spaceRunEnd(str, p) + 1, rest, caps)
                   ELSE matchHere(str, p, rest, caps)
            [] e.k = "num" ->
                 IF here /\ IsDigitOrComma(str[p])
                   THEN LET q == numRunEnd(str, p)
                        IN matchHere(str, q + 1, rest, Append(caps, SubSeq(str, p, q)))
                   ELSE <<>>

\* String.prototype.match without the g flag: the leftmost match
RECURSIVE matchFrom(_, _, _)
matchFrom(str, pat, p) ==
  IF p > Len(str) THEN <<>>
  ELSE LET m == matchHere(str, p, pat, <<>>)
       IN IF m # <<>> THEN m ELSE matchFrom(str, pat, p + 1)

match(str, pat) == matchFrom(str, pat, 1)

\* label.replace(/\u00a0/g, ' ')
cleanLabelOf(label) ==
  [i \in 1..Len(label) |-> IF label[i] = "nbsp" THEN " " ELSE label[i]]

\* .replace(/,/g, '')
stripCommas(text) == SelectSeq(text, LAMBDA c : c # ",")

\* parseInt(text, 10) of a text of digits: NaN for the empty text
RECURSIVE parseDigits(_, _)
parseDigits(text, acc) ==
  IF text = <<>> THEN acc
  ELSE parseDigits(Tail(text), 10 * acc + DigitVal(text[1]))

parseInt(text) == IF text = <<>> THEN NaN ELSE Num(parseDigits(text, 0))

\* isNaN(x): undefined converts to NaN, null to 0
isNaN(x) == x.t \in {"NaN", "undefined"}

\* Math.max(a, b)
MathMax(a, b) ==
  IF a.t = "NaN" \/ b.t = "NaN" THEN NaN
  ELSE IF a.v >= b.v THEN a ELSE b

\* /in shares/i.test(cleanLabel)
isExplicitlyInShares(cleanLabel) ==
  includes(toLowerCase(cleanLabel), <<"in", " ", "shares">>)

\* scaleShares that multiplies whatever the label says
scaleSharesMut(num, inShares) ==
  IF ~isNaN(num) THEN Num(num.v * Million) ELSE Null

\* !isNaN(num) ? (isExplicitlyInShares ? num : num * 1_000_000) : null
scaleShares(num, inShares) ==
  IF ~isNaN(num) THEN (IF inShares THEN num ELSE Num(num.v * Million)) ELSE Null

\* directMatch that never holds
directMatchMut(cleanLabel, inShares) == FALSE

\* /shares outstanding/i.test(cleanLabel) && isExplicitlyInShares
directMatch(cleanLabel, inShares) ==
  includes(toLowerCase(cleanLabel), <<"shares", " ", "outstanding">>) /\ inShares

\* sharesOfEntry that tries the patterns in the order 5, 4, 3, 2, 1
sharesOfEntryReversed(entry) ==
  LET label == entry.label
      cleanLabel == cleanLabelOf(label)
      inShares == isExplicitlyInShares(cleanLabel)
      multiMatch == match(cleanLabel, multiPattern)
      datedMatch == match(cleanLabel, datedPattern)
      fallback == match(cleanLabel, fallbackPattern)
      outstandingMatch == match(cleanLabel, outstandingPattern)
      Return(v) == [ret |-> TRUE, value |-> v]
      NumOf(m, g) == parseInt(stripCommas(m[1][g]))
  IN IF label = <<>> THEN [ret |-> FALSE, value |-> Null]
     ELSE IF outstandingMatch # <<>>
       THEN Return(scaleShares(NumOf(outstandingMatch, 1), inShares))
     ELSE IF directMatch(cleanLabel, inShares)
       THEN Return(scaleShares(entry.value, inShares))
     ELSE IF fallback # <<>>
             /\ ~includes(toLowerCase(cleanLabel), <<"authorized">>)
       THEN Return(scaleShares(NumOf(fallback, 1), inShares))
     ELSE IF datedMatch # <<>>
       THEN Return(scaleShares(NumOf(datedMatch, 1), inShares))
     ELSE IF multiMatch # <<>>
       THEN Return(scaleShares(MathMax(NumOf(multiMatch, 1), NumOf(multiMatch, 2)),
                               inShares))
     ELSE [ret |-> FALSE, value |-> Null]

\* what the body of the loop does with one entry: [ret |-> TRUE, value |-> v]
\* when it returns v, [ret |-> FALSE, ...] when the loop goes on
sharesOfEntry(entry) ==
  LET label == entry.label
      cleanLabel == cleanLabelOf(label)
      inShares == isExplicitlyInShares(cleanLabel)
      multiMatch == match(cleanLabel, multiPattern)
      datedMatch == match(cleanLabel, datedPattern)
      fallback == match(cleanLabel, fallbackPattern)
      outstandingMatch == match(cleanLabel, outstandingPattern)
      Return(v) == [ret |-> TRUE, value |-> v]
      NumOf(m, g) == parseInt(stripCommas(m[1][g]))
  IN IF label = <<>> THEN [ret |-> FALSE, value |-> Null]
     ELSE IF multiMatch # <<>>
       THEN Return(scaleShares(MathMax(NumOf(multiMatch, 1), NumOf(multiMatch, 2)),
                               inShares))
     ELSE IF datedMatch # <<>>
       THEN Return(scaleShares(NumOf(datedMatch, 1), inShares))
     ELSE IF fallback # <<>>
             /\ ~includes(toLowerCase(cleanLabel), <<"authorized">>)
       THEN Return(scaleShares(NumOf(fallback, 1), inShares))
     ELSE IF directMatch(cleanLabel, inShares)
       THEN Return(scaleShares(entry.value, inShares))
     ELSE IF outstandingMatch # <<>>
       THEN Return(scaleShares(NumOf(outstandingMatch, 1), inShares))
     ELSE [ret |-> FALSE, value |-> Null]

\* for (const key in map) { ... } return null
RECURSIVE extractSharesFrom(_, _)
extractSharesFrom(map, i) ==
  IF i > Len(map) THEN Null
  ELSE LET r == sharesOfEntry(map[i])
       IN IF r.ret THEN r.value ELSE extractSharesFrom(map, i + 1)

extractSharesOutstanding(map) == extractSharesFrom(map, 1)

---------------------------------------------------------------------------
(* The result of a JavaScript division: the quotient of two integers is the *)
(* reduced fraction [t |-> "number", n, d] with d > 0; x / 0 is Infinity,   *)
(* -Infinity or NaN; a ratio that is not computed is null                   *)

Abs(n) == IF n < 0 THEN -n ELSE n

RECURSIVE gcd(_, _)
gcd(a, b) == IF b = 0 THEN a ELSE gcd(b, a % b)

Quotient(n, d) ==
  LET g == gcd(Abs(n), Abs(d))
      s == IF d < 0 THEN -1 ELSE 1
  IN [t |-> "number", n |-> s * (n \div g), d |-> s * (d \div g)]

NotFinite(tag) == [t |-> tag, n |-> 0, d |-> 1]

NullRatio == NotFinite("null")

\* a / b
Divide(a, b) ==
  IF b # 0 THEN Quotient(a, b)
  ELSE IF a > 0 THEN NotFinite("Infinity")
  ELSE IF a < 0 THEN NotFinite("-Infinity")
  ELSE NotFinite("NaN")

\* q * k for an integer k > 0
Times(q, k) == IF q.t = "number" THEN Quotient(q.n * k, q.d) ELSE q

---------------------------------------------------------------------------
(* src/app/dashboard/page.tsx: the ratios of the income statement table     *)

\* netProfitMargin without the test of revenue
netProfitMarginMut(revenue, netIncome) ==
  Times(Divide(netIncome.v, revenue.v), 100)

\* revenue ? (netIncome / revenue) * 100 : null
netProfitMargin(revenue, netIncome) ==
  IF ~Falsy(revenue) THEN Times(Divide(netIncome.v, revenue.v), 100) ELSE NullRatio

incomeTaxTags ==
  << <<"us-gaap_IncomeTaxExpenseBenefit">>,
     <<"us-gaap_CurrentIncomeTaxExpenseBenefit">>,
     <<"ifrs-full_IncomeTaxExpenseContinuingOperations">> >>

preTaxIncomeTags ==
  << <<"us-gaap_IncomeLossFromContinuingOperationsBeforeIncomeTaxesExtraordinaryItemsNoncontrollingInterest">>,
     <<"us-gaap_IncomeLossFromContinuingOperationsBeforeIncomeTaxesMinorityInterestAndIncomeLossFromEquityMethodInvestments">>,
     <<"us-gaap_IncomeLossIncludingPortionAttributableToNoncontrollingInterest">>,
     <<"us-gaap_IncomeLossFromContinuingOperationsBeforeIncomeTaxesDomestic">>,
     <<"mcd_IncomeLossFromContinuingOperationsBeforeIncomeTaxes">>,
     <<"pg_IncomeLossFromContinuingOperationsBeforeIncomeTaxes">>,
     <<"ifrs-full_ProfitLossBeforeTax">> >>

\* effectiveTaxRate of the magnitudes
effectiveTaxRateMut(incomeTaxVal, preTaxIncomeVal) ==
  IF IsNumber(incomeTaxVal) /\ IsNumber(preTaxIncomeVal) /\ preTaxIncomeVal.v # 0
    THEN Times(Divide(Abs(incomeTaxVal.v), Abs(preTaxIncomeVal.v)), 100)
    ELSE NullRatio

\* typeof incomeTaxVal === 'number' && typeof preTaxIncomeVal === 'number'
\*   && preTaxIncomeVal !== 0 ? (incomeTaxVal / preTaxIncomeVal) * 100 : null
effectiveTaxRate(incomeTaxVal, preTaxIncomeVal) ==
  IF IsNumber(incomeTaxVal) /\ IsNumber(preTaxIncomeVal) /\ preTaxIncomeVal.v # 0
    THEN Times(Divide(incomeTaxVal.v, preTaxIncomeVal.v), 100)
    ELSE NullRatio

operatingTotalTags ==
  << <<"us-gaap_OperatingExpenses">>,
     <<"us-gaap_NoninterestExpense">>,
     <<"us-gaap_CostsAndExpenses">>,
     <<"us-gaap_OperatingCostsAndExpenses">> >>

componentTags ==
  << <<"us-gaap_SellingGeneralAndAdministrativeExpense">>,
     <<"us-gaap_SellingAndMarketingExpense">>,
     <<"us-gaap_GeneralAndAdministrativeExpense">>,
     <<"us-gaap_MarketingAndAdvertisingExpense">>,
     <<"us-gaap_ResearchAndDevelopmentExpense">>,
     <<"us-gaap_ResearchAndDevelopmentExpenseExcludingAcquiredInProcessCost">>,
     <<"us-gaap_ResearchAndDevelopmentInProcess">>,
     <<"us-gaap_AmortizationOfIntangibleAssets">>,
     <<"us-gaap_RestructuringCharges">>,
     <<"us-gaap_DepreciationDepletionAndAmortization">>,
     <<"ibm_IntellectualPropertyAndCustomDevelopmentIncome">>,
     <<"us-gaap_OtherOperatingIncomeExpenseNet">> >>

\* for (const t of tags) { const v = getTagValue(map, [t]); if (typeof v ===
\* 'number') { sum += v; found = true } }: [found, sum] from tag i on
RECURSIVE sumTagsFrom(_, _, _, _)
sumTagsFrom(map, tags, i, acc) ==
  IF i > Len(tags) THEN acc
  ELSE LET v == getTagValue(map, <<tags[i]>>)
       IN IF IsNumber(v)
            THEN sumTagsFrom(map, tags, i + 1, [found |-> TRUE, sum |-> acc.sum + v.v])
            ELSE sumTagsFrom(map, tags, i + 1, acc)

\* sumTags: found ? sum : null
sumTags(map, tags) ==
  LET r == sumTagsFrom(map, tags, 1, [found |-> FALSE, sum |-> 0])
  IN IF r.found THEN Num(r.sum) ELSE Null

\* operatingExpense that takes a total of 0 for a missing one
operatingExpenseMut(reportMap) ==
  LET direct == getTagValue(reportMap, operatingTotalTags)
  IN IF Falsy(direct) THEN sumTags(reportMap, componentTags) ELSE direct

\* let operatingExpense = getTagValue(...); if (operatingExpense === null)
\* { ... operatingExpense = foundAny ? sum : null }
operatingExpense(reportMap) ==
  LET direct == getTagValue(reportMap, operatingTotalTags)
  IN IF direct = Null THEN sumTags(reportMap, componentTags) ELSE direct

\* the metrics of the income statement table on one fact map
incomeTableOf(reportMap) ==
  LET m == extractMetrics(reportMap)
      incomeTaxVal == getTagValue(reportMap, incomeTaxTags)
      preTaxIncomeVal == getTagValue(reportMap, preTaxIncomeTags)
  IN [revenue |-> m.revenue,
      netIncome |-> m.netIncome,
      netProfitMargin |-> netProfitMargin(m.revenue, m.netIncome),
      incomeTax |-> incomeTaxVal,
      preTaxIncome |-> preTaxIncomeVal,
      effectiveTaxRate |-> effectiveTaxRate(incomeTaxVal, preTaxIncomeVal),
      operatingExpense |-> operatingExpense(reportMap)]

---------------------------------------------------------------------------
(* src/app/dashboard/page.tsx: book value per share (balance sheet table)   *)

preferredTags == << <<"us-gaap_PreferredStockValue">> >>

\* bookValuePerShare that leaves the preferred equity in
bookValuePerShareMut(totalEquity, preferredEquity, sharesOutstanding) ==
  IF IsNumber(totalEquity) /\ IsNumber(sharesOutstanding) /\ sharesOutstanding.v > 0
    THEN Divide(totalEquity.v, sharesOutstanding.v)
    ELSE NullRatio

\* typeof totalEquity === "number" && typeof sharesOutstanding === "number"
\*   && sharesOutstanding > 0 ? (totalEquity - preferredEquity) / sharesOutstanding : null
bookValuePerShare(totalEquity, preferredEquity, sharesOutstanding) ==
  IF IsNumber(totalEquity) /\ IsNumber(sharesOutstanding) /\ sharesOutstanding.v > 0
    THEN Divide(totalEquity.v - preferredEquity.v, sharesOutstanding.v)
    ELSE NullRatio

\* the balance sheet table on one fact map: the derivation, then the shares
bookValueOf(reportMap) ==
  LET m == balanceTable(reportMap)
      preferredEquity == Coalesce(getTagValue(reportMap, preferredTags), Num(0))
      sharesOutstanding == extractSharesOutstanding(reportMap)
  IN [totalEquity |-> m.totalEquity,
      preferredEquity |-> preferredEquity,
      sharesOutstanding |-> sharesOutstanding,
      bookValuePerShare |->
        bookValuePerShare(m.totalEquity, preferredEquity, sharesOutstanding)]

---------------------------------------------------------------------------
(* src/app/dashboard/page.tsx: free cash flow (cash flow table)             *)

netOperatingTags ==
  << <<"us-gaap_NetCashProvidedByUsedInOperatingActivities">>,
     <<"us-gaap_NetCashProvidedByUsedInOperatingActivitiesContinuingOperations">>,
     <<"ifrs-full_CashFlowsFromUsedInOperatingActivities">> >>

capexOutflowTags ==
  << <<"us-gaap_PaymentsToAcquirePropertyPlantAndEquipment">>,
     <<"us-gaap_PaymentsToAcquireProductiveAssets">>,
     <<"us-gaap_PaymentsToAcquireOtherProductiveAssets">>,
     <<"ifrs-full_PurchaseOfPropertyPlantAndEquipmentClassifiedAsInvestingActivities">>,
     <<"ifrs-full_AcquisitionOfPropertyPlantAndEquipment">>,
     <<"us-gaap_PaymentsForCapitalImprovements">>,
     <<"us-gaap_PaymentsToAcquireCommercialRealEstate">>,
     <<"us-gaap_PaymentsToAcquireRealEstate">> >>

capexProceedsTags ==
  << <<"us-gaap_ProceedsFromSaleOfPropertyPlantAndEquipment">>,
     <<"us-gaap_ProceedsFromSaleOfProductiveAssets">>,
     <<"us-gaap_ProceedsFromSaleOfPropertyHeldForSale">>,
     <<"ifrs-full_ProceedsFromSalesOfPropertyPlantAndEquipment">> >>

\* (capexOutflowsSigned !== 0 || capexProceedsSigned !== 0)
\*   ? Math.abs(netCapexSigned) : null
capexOutflow(capexOutflowsSigned, capexProceedsSigned) ==
  IF capexOutflowsSigned.v # 0 \/ capexProceedsSigned.v # 0
    THEN Num(Abs(capexOutflowsSigned.v + capexProceedsSigned.v))
    ELSE Null

\* typeof netOperating === 'number' && typeof capexOutflow === 'number'
\*   ? netOperating - capexOutflow : null
freeCashFlow(netOperating, capex) ==
  IF IsNumber(netOperating) /\ IsNumber(capex) THEN Num(netOperating.v - capex.v)
  ELSE Null

\* the free cash flow of the cash flow table on one fact map
freeCashFlowOf(reportMap) ==
  LET netOperating == getTagValue(reportMap, netOperatingTags)
      capexOutflowsSigned == Coalesce(sumTags(reportMap, capexOutflowTags), Num(0))
      capexProceedsSigned == Coalesce(sumTags(reportMap, capexProceedsTags), Num(0))
      capex == capexOutflow(capexOutflowsSigned, capexProceedsSigned)
  IN [netOperating |-> netOperating,
      capexOutflow |-> capex,
      freeCashFlow |-> freeCashFlow(netOperating, capex)]

---------------------------------------------------------------------------
(* src/app/dashboard/page.tsx: the report of a year.  A date is the token   *)
(* sequence of its text ("31", "-", "12", "-", "2021"); a missing date is   *)
(* the empty sequence (an empty date matches no year either)               *)


\* r.date?.split('-'): the parts between the "-" tokens
RECURSIVE splitFrom(_, _, _, _)
splitFrom(str, i, part, acc) ==
  IF i > Len(str) THEN Append(acc, part)
  ELSE IF str[i] = "-" THEN splitFrom(str, i + 1, <<>>, Append(acc, part))
  ELSE splitFrom(str, i + 1, Append(part, str[i]), acc)

split(str) == splitFrom(str, 1, <<>>, <<>>)

\* parseInt of one token: its leading integer, or NaN
parseIntTok(tok) ==
  CASE tok = "2020" -> Num(2020)
    [] tok = "2021" -> Num(2021)
    [] tok = "31" -> Num(31)
    [] tok = "30" -> Num(30)
    [] tok = "12" -> Num(12)
    [] tok = "06" -> Num(6)
    [] OTHER -> NaN

\* parseInt(parts[k]): NaN for a missing or empty part
parseIntPart(parts, k) ==
  IF k > Len(parts) \/ parts[k] = <<>> THEN NaN ELSE parseIntTok(parts[k][1])

\* the callback of parsed.find: parts && parseInt(parts[2]) === year
matchesYear(r, year) ==
  /\ r.date # <<>>
  /\ parseIntPart(split(r.date), 3) = Num(year)

\* parsed.find(...): <<report>> or <<>>
RECURSIVE matchedReportFrom(_, _, _)
matchedReportFrom(parsed, year, i) ==
  IF i > Len(parsed) THEN <<>>
  ELSE IF matchesYear(parsed[i], year) THEN <<parsed[i]>>
  ELSE matchedReportFrom(parsed, year, i + 1)

matchedReport(parsed, year) == matchedReportFrom(parsed, year, 1)

\* matchedReport?.map ?? {}
reportMapOf(matched) == IF matched = <<>> THEN <<>> ELSE matched[1].map

netCashChangeTags ==
  << <<"us-gaap_CashCashEquivalentsRestrictedCashAndRestrictedCashEquivalentsPeriodIncreaseDecreaseIncludingExchangeRateEffect">>,
     <<"us-gaap_CashCashEquivalentsRestrictedCashAndRestrictedCashEquivalentsPeriodIncreaseDecreaseExcludingExchangeRateEffect">>,
     <<"us-gaap_CashAndCashEquivalentsPeriodIncreaseDecrease">>,
     <<"hsic_CashCashEquivalentsRestrictedCashAndRestrictedCashEquivalentsPeriodIncreaseDecreaseIncludingExchangeRateEffectContinuingOperations">>,
     <<"ifrs-full_IncreaseDecreaseInCashAndCashEquivalentsBeforeEffectOfExchangeRateChanges">>,
     <<"ifrs-full_IncreaseDecreaseInCashAndCashEquivalents">> >>

\* one entry of chartData
chartRow(parsed, year) ==
  LET m == extractMetrics(reportMapOf(matchedReport(parsed, year)))
  IN [year |-> year,
      revenue |-> Coalesce(m.revenue, Num(0)),
      netIncome |-> Coalesce(m.netIncome, Num(0))]

\* one entry of cashFlowChartData
cashFlowChartRow(parsed, year) ==
  [year |-> year,
   netChange |-> Coalesce(getTagValue(reportMapOf(matchedReport(parsed, year)),
                                      netCashChangeTags), Num(0))]

---------------------------------------------------------------------------
(* src/app/dashboard/page.tsx: what one render of Dashboard computes.  A   *)
(* statement blob is [json, reports]: json is "array" when JSON.parse      *)
(* yields the report list, "malformed" or "empty" when it throws           *)

Blob(rs) == [json |-> "array", reports |-> rs]
Malformed == [json |-> "malformed", reports |-> <<>>]
EmptyString == [json |-> "empty", reports |-> <<>>]

\* JSON.parse(blob) throws
parseThrows(blob) == blob.json # "array"

NoTicker == "null"

\* data.filter(row => row.ticker === selected && row.quarter === 0)
\* annualRows that keeps the rows of every quarter
annualRowsAnyQuarter(rows, ticker) ==
  SelectSeq(rows, LAMBDA row : row.ticker = ticker)

annualRows(rows, ticker) ==
  SelectSeq(rows, LAMBDA row : row.ticker = ticker /\ row.quarter = 0)

\* .sort((a, b) => a.year - b.year): a stable sort by year
RECURSIVE sortByYear(_)
sortByYear(rows) ==
  IF rows = <<>> THEN <<>>
  ELSE LET last == rows[Len(rows)]
           rest == sortByYear(SubSeq(rows, 1, Len(rows) - 1))
       IN SelectSeq(rest, LAMBDA r : r.year <= last.year)
          \o <<last>>
          \o SelectSeq(rest, LAMBDA r : r.year > last.year)

chartData(rows, ticker) ==
  LET rs == annualRows(rows, ticker) IN
  sortByYear([i \in 1..Len(rs) |-> chartRow(rs[i].income_statement.reports, rs[i].year)])

balanceChartData(rows, ticker) ==
  LET rs == annualRows(rows, ticker) IN
  sortByYear([i \in 1..Len(rs) |->
    balanceChartRow(reportMapOf(matchedReport(rs[i].balance_sheet.reports, rs[i].year)),
                    rs[i].year)])

cashFlowChartData(rows, ticker) ==
  LET rs == annualRows(rows, ticker) IN
  sortByYear([i \in 1..Len(rs) |-> cashFlowChartRow(rs[i].cash_flow.reports, rs[i].year)])

\* one of the three JSON.parse calls of the chart series throws
seriesThrow(rows, ticker) ==
  \E i \in 1..Len(rows) :
    /\ rows[i].ticker = ticker /\ rows[i].quarter = 0
    /\ \/ parseThrows(rows[i].income_statement)
       \/ parseThrows(rows[i].balance_sheet)
       \/ parseThrows(rows[i].cash_flow)

\* data.find(d => d.ticker === selected && d.year === selectedYear && d.quarter === 0)
selectedRowOf(rows, ticker, year) ==
  LET hits == {i \in 1..Len(rows) : /\ rows[i].ticker = ticker
                                    /\ Num(rows[i].year) = year
                                    /\ rows[i].quarter = 0}
  IN IF hits = {} THEN <<>>
     ELSE <<rows[CHOOSE i \in hits : \A j \in hits : i <= j]>>

\* the income statement table: parsed[0]?.map ?? {}
incomeTable(row) ==
  LET parsed == row.income_statement.reports
      reportMap == IF parsed = <<>> THEN <<>> ELSE parsed[1].map
  IN extractMetrics(reportMap)

\* the balance sheet table: the report matched to selectedYear
balanceTableOf(row, year) ==
  balanceTable(reportMapOf(matchedReport(row.balance_sheet.reports, year)))

\* the cash flow table: net income from the income report matched to selectedYear
cashTable(row, year) ==
  LET reportMap == reportMapOf(matchedReport(row.cash_flow.reports, year))
      incomeMap == reportMapOf(matchedReport(row.income_statement.reports, year))
  IN [netIncome |-> extractMetrics(incomeMap).netIncome,
      netCashChange |-> getTagValue(reportMap, netCashChangeTags)]

Crashed ==
  [crashed |-> TRUE, chartData |-> <<>>, balanceChartData |-> <<>>,
   cashFlowChartData |-> <<>>, income |-> <<>>, balance |-> <<>>, cash |-> <<>>]

\* the render of Dashboard; a table is <<>> when it is not shown or shows
\* "No data available."
render(rows, ticker, year) ==
  IF seriesThrow(rows, ticker) THEN Crashed
  ELSE LET shown == ticker # NoTicker /\ ~Falsy(year)
           row == IF shown THEN selectedRowOf(rows, ticker, year) ELSE <<>>
       IN [crashed |-> FALSE,
           chartData |-> chartData(rows, ticker),
           balanceChartData |-> balanceChartData(rows, ticker),
           cashFlowChartData |-> cashFlowChartData(rows, ticker),
           income |-> IF row = <<>> THEN <<>> ELSE <<incomeTable(row[1])>>,
           balance |-> IF row = <<>> THEN <<>> ELSE <<balanceTableOf(row[1], year.v)>>,
           cash |-> IF row = <<>> \/ row[1].cash_flow.json = "empty" THEN <<>>
                    ELSE <<cashTable(row[1], year.v)>>]

---------------------------------------------------------------------------
(* Inputs *)

Years == {2020, 2021}
Tickers == {"AAA", "BBB"}

TotalAssetsLabel == <<"Total", " ", "assets">>
AssetsLabel == <<"Assets">>
OtherKey == <<"aapl_OtherLine">>

\* balance sheet facts: the three concepts and a filer line, the assets
\* labels on the assets concept and on the filer line
BalanceFacts ==
  {Fact(<<"us-gaap_Assets">>, l, x) : l \in {<<>>, TotalAssetsLabel}, x \in OptValues}
  \cup {Fact(OtherKey, l, x) : l \in {TotalAssetsLabel, AssetsLabel}, x \in OptValues}
  \cup {Fact(<<"us-gaap_Liabilities">>, <<"Total", " ", "liabilities">>, x) : x \in OptValues}
  \cup {Fact(<<"us-gaap_StockholdersEquity">>, <<"Total", " ", "equity">>, x) : x \in OptValues}

\* facts for the tag lookup: both equity tags, plain and defref_-prefixed
TagFacts ==
  {Fact(k, <<>>, x) : k \in {equityTags[1], DefrefKey(equityTags[1]),
                             equityTags[2], DefrefKey(equityTags[2])},
                      x \in OptValues}

\* facts for the tag lookup whose keys are the first equity tag in another
\* letter case or under a defref_ prefix in another letter case
CaseFacts ==
  {Fact(k, <<>>, x) : k \in {equityTags[1], <<"US-GAAP_STOCKHOLDERSEQUITY">>,
                             <<"DefRef_">> \o equityTags[1]},
                      x \in {Num(0), Num(1), Undefined}}

TagLists ==
  {<<equityTags[1]>>, equityTags, <<equityTags[2], equityTags[1]>>}

\* facts for the label lookup: filer lines carrying the assets labels
LabelFacts ==
  {Fact(<<"aapl_OtherLine", k>>, l, x) :
     k \in {"1", "2"},
     l \in {<<>>, TotalAssetsLabel, AssetsLabel, <<"total", " ", "nbsp", "assets", " ">>},
     x \in OptValues}

\* "Total Stockholders\u2019 Equity", "total stockholders' equity", the same
\* with other blanks and the left quote, and the label without a quote
CurlyEquityLabel == <<"Total", " ", "Stockholders", "rsquo", " ", "Equity">>
StraightEquityLabel == <<"total", " ", "stockholders", "'", " ", "equity">>
SpacedEquityLabel ==
  <<"tab", "TOTAL", "nbsp", " ", "stockholders", "lsquo", "tab", "equity", " ">>
UnquotedEquityLabel == <<"total", " ", "stockholders", " ", "equity">>

\* filer lines carrying the equity labels
EquityLabelFacts ==
  {Fact(<<"aapl_OtherLine", k>>, l, x) :
     k \in {"1", "2"},
     l \in {CurlyEquityLabel, StraightEquityLabel, SpacedEquityLabel, UnquotedEquityLabel},
     x \in {Num(1), Num(2)}}

LabelLists ==
  {assetsLabels, <<AssetsLabel, TotalAssetsLabel>>, <<AssetsLabel>>,
   <<CurlyEquityLabel>>, <<StraightEquityLabel>>, <<SpacedEquityLabel>>}

\* income statement facts: two revenue concepts (one defref_-prefixed), the
\* net income concept and a filer line, with and without labels
IncomeFacts ==
  {Fact(<<"us-gaap_Revenues">>, l, x) :
     l \in {<<>>, <<"Total", " ", "revenues">>}, x \in OptValues}
  \cup {Fact(<<"DefRef_", "us-gaap_SalesRevenueNet">>, <<>>, x) : x \in OptValues}
  \cup {Fact(<<"us-gaap_NetIncomeLoss">>, l, x) :
          l \in {<<>>, <<"Net", " ", "income">>}, x \in OptValues}
  \cup {Fact(OtherKey, l, x) :
          l \in {<<"Cost", " ", "of", " ", "revenue">>, <<"Net", " ", "income">>,
                 <<"Operating", " ", "expenses">>},
          x \in OptValues}

Date2021 == <<"31", "-", "12", "-", "2021">>
DateJune2021 == <<"30", "-", "06", "-", "2021">>
Date2020 == <<"31", "-", "12", "-", "2020">>
DateIso2021 == <<"2021", "-", "12", "-", "31">>
DateYearOnly == <<"2021">>
NoDate == <<>>

Report(d, m) == [date |-> d, map |-> m]

IncomeMapA ==
  <<Fact(<<"us-gaap_Revenues">>, <<"Total", " ", "revenues">>, Num(2)),
    Fact(<<"us-gaap_NetIncomeLoss">>, <<"Net", " ", "income">>, Num(1))>>

IncomeMapB ==
  <<Fact(<<"us-gaap_Revenues">>, <<"Total", " ", "revenues">>, Num(1)),
    Fact(<<"us-gaap_NetIncomeLoss">>, <<"Net", " ", "income">>, Num(2))>>

BalanceMapA ==
  <<Fact(<<"us-gaap_Assets">>, TotalAssetsLabel, Num(2)),
    Fact(<<"us-gaap_Liabilities">>, <<"Total", " ", "liabilities">>, Num(1))>>

CashMapA ==
  <<Fact(<<"us-gaap_CashAndCashEquivalentsPeriodIncreaseDecrease">>, <<>>, Num(1))>>

\* the reports a period selection is tried on
SelectReports ==
  {Report(d, m) : d \in {Date2021, DateJune2021, Date2020, DateIso2021,
                         DateYearOnly, NoDate},
                  m \in {IncomeMapA, BalanceMapA}}

\* the statements of one row: all well-formed, a restated income statement
\* (prior year first), or one statement whose JSON does not parse
\* a balance sheet whose assets line has the concept key and another label
BalanceMapB ==
  <<Fact(<<"us-gaap_Assets">>, <<"Assets", ",", " ", "total">>, Num(2)),
    Fact(<<"us-gaap_Liabilities">>, <<"Total", " ", "liabilities">>, Num(1))>>

RelabelledBalance == Blob(<<Report(Date2021, BalanceMapB), Report(Date2020, BalanceMapB)>>)

GoodIncome == Blob(<<Report(Date2021, IncomeMapA), Report(Date2020, IncomeMapB)>>)
RestatedIncome == Blob(<<Report(Date2020, IncomeMapB), Report(Date2021, IncomeMapA)>>)
GoodBalance == Blob(<<Report(Date2021, BalanceMapA), Report(Date2020, BalanceMapA)>>)
GoodCash == Blob(<<Report(Date2021, CashMapA), Report(Date2020, CashMapA)>>)

Statements ==
  {<<GoodIncome, GoodBalance, GoodCash>>,
   <<RestatedIncome, GoodBalance, GoodCash>>,
   <<Malformed, GoodBalance, GoodCash>>,
   <<GoodIncome, Malformed, GoodCash>>,
   <<GoodIncome, GoodBalance, Malformed>>,
   <<GoodIncome, GoodBalance, EmptyString>>}

Row(tk, y, q, st) ==
  [ticker |-> tk, year |-> y, quarter |-> q,
   income_statement |-> st[1], balance_sheet |-> st[2], cash_flow |-> st[3]]

\* the rows of an API response: annual rows of AAA (2021 with every
\* statement triple), a quarterly row of AAA and annual rows of BBB
RowSet ==
  {Row("AAA", 2021, 0, st) : st \in Statements}
  \cup {Row("AAA", 2020, 0, <<GoodIncome, GoodBalance, GoodCash>>),
        Row("AAA", 2020, 0, <<Malformed, GoodBalance, GoodCash>>),
        Row("AAA", 2021, 1, <<Malformed, GoodBalance, GoodCash>>),
        Row("BBB", 2021, 0, <<GoodIncome, GoodBalance, GoodCash>>),
        Row("BBB", 2020, 0, <<GoodIncome, Malformed, GoodCash>>),
        Row("BBB", 2021, 0, <<GoodIncome, RelabelledBalance, GoodCash>>)}

---------------------------------------------------------------------------
(* Specifications of the resolvers: Init draws the inputs, each action is   *)
(* one call                                                                 *)

DashboardIdle ==
  /\ data = <<>> /\ searchParam = NoTicker /\ selected = NoTicker
  /\ selectedYear = Null /\ fetchState = "done"
  /\ effYear = FALSE /\ effParam = FALSE
  /\ view = render(<<>>, NoTicker, Null)

ResolverIdle ==
  /\ facts = <<>> /\ cands = <<>> /\ reports = <<>> /\ targetYear = 2021
  /\ out = Null /\ pc = "idle"

Call(name, result) ==
  /\ pc = "idle"
  /\ pc' = name
  /\ out' = result
  /\ UNCHANGED <<facts, reports, targetYear>>
  /\ UNCHANGED dashboardVars

\* the balance sheet table of the selected year on the fact map facts
CallBalanceTable ==
  /\ Call("balanceTable", [metrics |-> balanceTable(facts)])
  /\ UNCHANGED cands

\* one entry of balanceChartData on the fact map facts
CallBalanceChartRow ==
  /\ Call("balanceChartRow", [metrics |-> balanceChartMetrics(facts),
                              entry |-> balanceChartRow(facts, targetYear)])
  /\ UNCHANGED cands

InitBalance ==
  /\ IsMapOver(facts, BalanceFacts, MaxFacts)
  /\ cands = <<>> /\ reports = <<>> /\ targetYear = 2021
  /\ out = Null /\ pc = "idle"
  /\ DashboardIdle

NextBalance == CallBalanceTable \/ CallBalanceChartRow

SpecBalance == InitBalance /\ [][NextBalance]_vars

CallGetTagValue ==
  \E tags \in TagLists :
    /\ Call("getTagValue", getTagValue(facts, tags))
    /\ cands' = tags

CallStrictGet ==
  \E labels \in LabelLists :
    /\ Call("strictGet", strictGet(facts, labels))
    /\ cands' = labels

InitResolve ==
  /\ \/ IsMapOver(facts, TagFacts, MaxLookupFacts)
     \/ IsMapOver(facts, LabelFacts, MaxLookupFacts)
     \/ IsMapOver(facts, EquityLabelFacts, MaxLookupFacts)
     \/ IsMapOver(facts, CaseFacts, MaxLookupFacts)
  /\ cands = <<>> /\ reports = <<>> /\ targetYear = 2021
  /\ out = Null /\ pc = "idle"
  /\ DashboardIdle

NextResolve == CallGetTagValue \/ CallStrictGet

SpecResolve == InitResolve /\ [][NextResolve]_vars

MaxKeyLen == 3   \* tokens of a fact key

\* the pieces of a fact key: the prefix in three letter cases, a filer
\* prefix and a concept name
KeyToks == {"defref_", "DefRef_", "DEFREF_", "Aapl_", "us-gaap_Revenues"}

KeyFacts ==
  {Fact(k, <<>>, Undefined) : k \in UNION {[1..n -> KeyToks] : n \in 1..MaxKeyLen}}

\* the normalized key of the one entry of the map, and the normalized key of
\* an entry stored under that key
CallNormalizedEntries ==
  /\ Call("normalizedEntries",
          LET once == normalizedEntries(facts)[1].normKey
          IN [once |-> once,
              twice |-> normalizedEntries(<<Fact(once, <<>>, Undefined)>>)[1].normKey])
  /\ UNCHANGED cands

InitKeys ==
  /\ \E f \in KeyFacts : facts = <<f>>
  /\ cands = <<>> /\ reports = <<>> /\ targetYear = 2021
  /\ out = Null /\ pc = "idle"
  /\ DashboardIdle

NextKeys == CallNormalizedEntries

SpecKeys == InitKeys /\ [][NextKeys]_vars

CallExtractMetrics ==
  /\ Call("extractMetrics", extractMetrics(facts))
  /\ UNCHANGED cands

InitMetrics ==
  /\ IsMapOver(facts, IncomeFacts, MaxIncomeFacts)
  /\ cands = <<>> /\ reports = <<>> /\ targetYear = 2021
  /\ out = Null /\ pc = "idle"
  /\ DashboardIdle

NextMetrics == CallExtractMetrics

SpecMetrics == InitMetrics /\ [][NextMetrics]_vars

\* one entry of chartData: the report matched to the row's year, its metrics
CallChartRow ==
  /\ Call("chartRow",
          [matched |-> matchedReport(reports, targetYear),
           metrics |-> extractMetrics(reportMapOf(matchedReport(reports, targetYear))),
           entry |-> chartRow(reports, targetYear)])
  /\ UNCHANGED cands

\* the balance sheet table: the report matched to selectedYear, its metrics
CallBalanceSelect ==
  /\ Call("balanceSelect",
          [matched |-> matchedReport(reports, targetYear),
           metrics |-> balanceTable(reportMapOf(matchedReport(reports, targetYear)))])
  /\ UNCHANGED cands

InitSelect ==
  /\ \E n \in 0..MaxReports : reports \in [1..n -> SelectReports]
  /\ targetYear \in Years
  /\ facts = <<>> /\ cands = <<>>
  /\ out = Null /\ pc = "idle"
  /\ DashboardIdle

NextSelect == CallChartRow \/ CallBalanceSelect

SpecSelect == InitSelect /\ [][NextSelect]_vars

---------------------------------------------------------------------------
(* The share extractor and the book value per share                         *)

MaxShareFacts == 2   \* entries of a fact map of share labels

Thousand == <<"1", ",", "0", "0", "0">>
TwoThousand == <<"2", ",", "0", "0", "0">>
IssuedAndOutstanding ==
  <<"shares", " ", "issued", " ", "and", " ", "outstanding">>
InSharesFlag == <<" ", "(", "in", " ", "shares", ")">>

\* "1,000 and 2,000 shares issued and outstanding" and its variants
MultiLabel == Thousand \o <<" ", "and", " ">> \o TwoThousand \o <<" ">> \o IssuedAndOutstanding
MultiLabelFirstMax ==
  TwoThousand \o <<"nbsp", "And", "tab", " ">> \o Thousand \o <<" ">> \o IssuedAndOutstanding
MultiLabelInShares == MultiLabel \o InSharesFlag
\* "Class A, and 2,000 shares issued and outstanding": the first group is ","
MultiLabelCommas ==
  <<"Class", " ", "A", ",", " ", "and", " ">> \o TwoThousand \o <<" ">> \o IssuedAndOutstanding
\* "3 Shares Issued And Outstanding as of 2021"
DatedLabel ==
  <<"3", "nbsp", "Shares", " ", "Issued", " ", "And", " ", "Outstanding", " ",
    "as", " ", "of", " ", "2021">>
\* "4 shares issued and outstanding"
FallbackLabel == <<"4", " ">> \o IssuedAndOutstanding
\* "Common stock, shares issued and outstanding": the group is ","
FallbackLabelCommas == <<"Common", " ", "stock", ",", " ">> \o IssuedAndOutstanding
\* "9 shares authorized, 5 shares issued and outstanding"
AuthorizedLabel ==
  <<"9", " ", "shares", " ", "authorized", ",", " ", "5", " ">> \o IssuedAndOutstanding
\* "500 shares outstanding (in shares)"
DirectLabel == <<"5", "0", "0", " ", "shares", " ", "outstanding">> \o InSharesFlag
\* "Common stock, shares outstanding" (no "in shares")
UnflaggedLabel == <<"Common", " ", "stock", ",", " ", "shares", " ", "outstanding">>
\* "outstanding: 6 shares at 2021"
OutstandingLabel == <<"outstanding", ":", " ", "6", " ", "shares", " ", "at", " ", "2021">>
OutstandingLabelInShares == <<"outstanding", ":", "7", " ", "shares">> \o InSharesFlag

\* labels that several patterns apply to
AsOf2021 == <<" ", "as", " ", "of", " ", "2021">>
\* "2,000 and 1,000 shares issued and outstanding as of 2021"
MultiDatedLabel ==
  TwoThousand \o <<" ", "and", " ">> \o Thousand \o <<" ">> \o IssuedAndOutstanding
    \o AsOf2021
\* "4 shares issued and outstanding, 3 shares issued and outstanding as of 2021"
FallbackDatedLabel ==
  FallbackLabel \o <<",", " ", "3", " ">> \o IssuedAndOutstanding \o AsOf2021
\* "4 shares issued and outstanding, shares outstanding (in shares)"
FallbackDirectLabel ==
  FallbackLabel \o <<",", " ", "shares", " ", "outstanding">> \o InSharesFlag
\* "outstanding: 7 shares outstanding (in shares)"
DirectOutstandingLabel ==
  <<"outstanding", ":", " ", "7", " ", "shares", " ", "outstanding">> \o InSharesFlag
\* "9 shares authorized, outstanding: 6 shares, 5 shares issued and outstanding"
AuthorizedOutstandingLabel ==
  <<"9", " ", "shares", " ", "authorized", ",", " ", "outstanding", ":", " ", "6",
    " ", "shares", ",", " ", "5", " ">> \o IssuedAndOutstanding

ShareLabels ==
  {MultiLabel, MultiLabelFirstMax, MultiLabelInShares, MultiLabelCommas,
   MultiDatedLabel, FallbackDatedLabel, FallbackDirectLabel,
   DirectOutstandingLabel, AuthorizedOutstandingLabel,
   DatedLabel, FallbackLabel, FallbackLabelCommas, AuthorizedLabel,
   UnflaggedLabel, OutstandingLabel, OutstandingLabelInShares,
   TotalAssetsLabel, <<>>}

ShareValues == {Undefined, Num(-1), Num(0), Num(500)}

\* filer lines carrying the share labels; only the "in shares" line is read
\* for its value
ShareFacts ==
  {Fact(<<"aapl_OtherLine", k>>, l, Num(1)) : k \in {"1", "2"}, l \in ShareLabels}
  \cup {Fact(<<"aapl_OtherLine", k>>, DirectLabel, x) : k \in {"1", "2"}, x \in ShareValues}

\* balance sheet facts for the book value: equity explicit or derived,
\* preferred equity, and one line with a share count
BookFacts ==
  {Fact(<<"us-gaap_StockholdersEquity">>, <<>>, x) : x \in {Undefined, Num(-1), Num(2)}}
  \cup {Fact(<<"us-gaap_Assets">>, TotalAssetsLabel, Num(2)),
        Fact(<<"us-gaap_Liabilities">>, <<>>, Num(1)),
        Fact(<<"us-gaap_PreferredStockValue">>, <<>>, Undefined),
        Fact(<<"us-gaap_PreferredStockValue">>, <<>>, Num(1)),
        Fact(OtherKey, FallbackLabel, Num(1)),
        Fact(OtherKey, FallbackLabelCommas, Num(1)),
        Fact(OtherKey, OutstandingLabelInShares, Num(1))}
  \cup {Fact(OtherKey, DirectLabel, x) : x \in ShareValues}

CallExtractShares ==
  /\ Call("extractSharesOutstanding", extractSharesOutstanding(facts))
  /\ UNCHANGED cands

CallBookValue ==
  /\ Call("bookValue", bookValueOf(facts))
  /\ UNCHANGED cands

InitShares ==
  /\ \/ IsMapOver(facts, ShareFacts, MaxShareFacts)
     \/ IsMapOver(facts, BookFacts, MaxFacts)
  /\ cands = <<>> /\ reports = <<>> /\ targetYear = 2021
  /\ out = Null /\ pc = "idle"
  /\ DashboardIdle

NextShares == CallExtractShares \/ CallBookValue

SpecShares == InitShares /\ [][NextShares]_vars

---------------------------------------------------------------------------
(* The income statement table and the free cash flow                        *)

RatioValues == {Undefined, Num(-2), Num(-1), Num(0), Num(1), Num(3)}

RatioFacts ==
  {Fact(k, <<>>, x) :
     k \in {<<"us-gaap_Revenues">>, <<"us-gaap_NetIncomeLoss">>,
            incomeTaxTags[1], preTaxIncomeTags[7],
            operatingTotalTags[2], componentTags[1], componentTags[5]},
     x \in RatioValues}

CashFacts ==
  {Fact(k, <<>>, x) :
     k \in {netOperatingTags[1], capexOutflowTags[1], capexOutflowTags[2],
            capexProceedsTags[1]},
     x \in RatioValues}

CallIncomeTable ==
  /\ Call("incomeTable", incomeTableOf(facts))
  /\ UNCHANGED cands

InitIncome ==
  /\ IsMapOver(facts, RatioFacts, MaxIncomeFacts)
  /\ cands = <<>> /\ reports = <<>> /\ targetYear = 2021
  /\ out = Null /\ pc = "idle"
  /\ DashboardIdle

NextIncome == CallIncomeTable

SpecIncome == InitIncome /\ [][NextIncome]_vars

CallFreeCashFlow ==
  /\ Call("freeCashFlow", freeCashFlowOf(facts))
  /\ UNCHANGED cands

InitCash ==
  /\ IsMapOver(facts, CashFacts, MaxFacts)
  /\ cands = <<>> /\ reports = <<>> /\ targetYear = 2021
  /\ out = Null /\ pc = "idle"
  /\ DashboardIdle

NextCash == CallFreeCashFlow

SpecCash == InitCash /\ [][NextCash]_vars

---------------------------------------------------------------------------
(* Repeated calls of the resolvers on one fact map: out is the list of the  *)
(* results of the calls made so far, all of one resolver with one candidate *)
(* list.  No resolver assigns to the map it is given                        *)

MaxPureFacts == 1   \* entries of the fact map of the repeated calls
MaxCalls == 2       \* calls of one behaviour

Recall(name, result, c) ==
  /\ pc \in {"idle", name}
  /\ pc = name => c = cands
  /\ Len(out) < MaxCalls
  /\ pc' = name
  /\ cands' = c
  /\ out' = Append(out, result)
  /\ UNCHANGED <<facts, reports, targetYear>>
  /\ UNCHANGED dashboardVars

RecallGetTagValue ==
  \E tags \in TagLists : Recall("getTagValue", getTagValue(facts, tags), tags)

RecallStrictGet ==
  \E labels \in LabelLists : Recall("strictGet", strictGet(facts, labels), labels)

RecallExtractMetrics == Recall("extractMetrics", extractMetrics(facts), <<>>)

RecallExtractShares ==
  Recall("extractSharesOutstanding", extractSharesOutstanding(facts), <<>>)

InitPure ==
  /\ \/ IsMapOver(facts, TagFacts, MaxPureFacts)
     \/ IsMapOver(facts, LabelFacts, MaxPureFacts)
     \/ IsMapOver(facts, IncomeFacts, MaxPureFacts)
     \/ IsMapOver(facts, ShareFacts, MaxPureFacts)
  /\ cands = <<>> /\ reports = <<>> /\ targetYear = 2021
  /\ out = <<>> /\ pc = "idle"
  /\ DashboardIdle

NextPure ==
  \/ RecallGetTagValue
  \/ RecallStrictGet
  \/ RecallExtractMetrics
  \/ RecallExtractShares

SpecPure == InitPure /\ [][NextPure]_vars

---------------------------------------------------------------------------
(* The Dashboard component: state, effects and events; every action ends   *)
(* with the render of the new state.  A render that throws unmounts the    *)
(* component: nothing runs after it                                        *)

Mounted == ~view.crashed

Init ==
  /\ searchParam \in Tickers \cup {NoTicker}
  /\ selected = searchParam
  /\ data = <<>>
  /\ selectedYear = Null
  /\ fetchState = "pending"
  /\ effYear = TRUE
  /\ effParam = TRUE
  /\ view = render(<<>>, searchParam, Null)
  /\ ResolverIdle

\* fetchData: the response is an array, setData(json)
FetchArray ==
  \E n \in 0..MaxRows : \E json \in [1..n -> RowSet] :
    /\ Mounted /\ fetchState = "pending"
    /\ data' = json
    /\ fetchState' = "done"
    /\ effYear' = TRUE
    /\ view' = render(json, selected, selectedYear)
    /\ UNCHANGED <<searchParam, selected, selectedYear, effParam>>
    /\ UNCHANGED resolverVars

\* fetchData: the response is not an array, setData([])
FetchNotArray ==
  /\ Mounted /\ fetchState = "pending"
  /\ data' = <<>>
  /\ fetchState' = "done"
  /\ effYear' = TRUE
  /\ view' = render(<<>>, selected, selectedYear)
  /\ UNCHANGED <<searchParam, selected, selectedYear, effParam>>
  /\ UNCHANGED resolverVars

\* fetchData: fetch or res.json() rejects, the catch only logs
FetchFailed ==
  /\ Mounted /\ fetchState = "pending"
  /\ fetchState' = "done"
  /\ UNCHANGED <<data, searchParam, selected, selectedYear, effYear, effParam, view>>
  /\ UNCHANGED resolverVars

\* mostRecentYear with Math.min
leastRecentYear(companyData) ==
  CHOOSE y \in {companyData[i].year : i \in 1..Len(companyData)} :
    \A i \in 1..Len(companyData) : y <= companyData[i].year

\* Math.max(...companyData.map(d => d.year))
mostRecentYear(companyData) ==
  CHOOSE y \in {companyData[i].year : i \in 1..Len(companyData)} :
    \A i \in 1..Len(companyData) : companyData[i].year <= y

\* useEffect(..., [selected, data])
YearEffect ==
  /\ Mounted /\ effYear
  /\ effYear' = FALSE
  /\ LET companyData == annualRows(data, selected) IN
     IF selected = NoTicker \/ companyData = <<>>
       THEN UNCHANGED <<selectedYear, view>>
       ELSE /\ selectedYear' = Num(mostRecentYear(companyData))
            /\ view' = render(data, selected, selectedYear')
  /\ UNCHANGED <<data, searchParam, selected, fetchState, effParam>>
  /\ UNCHANGED resolverVars

\* useEffect(..., [searchParams, selected])
ParamEffect ==
  /\ Mounted /\ effParam
  /\ IF searchParam # NoTicker /\ searchParam # selected
       THEN /\ selected' = searchParam
            /\ effYear' = TRUE
            /\ effParam' = TRUE
            /\ view' = render(data, searchParam, selectedYear)
       ELSE /\ effParam' = FALSE
            /\ UNCHANGED <<selected, effYear, view>>
  /\ UNCHANGED <<data, searchParam, selectedYear, fetchState>>
  /\ UNCHANGED resolverVars

\* the ticker URL parameter changes (navigation from the search box)
Navigate ==
  \E t \in Tickers \cup {NoTicker} :
    /\ Mounted /\ t # searchParam
    /\ searchParam' = t
    /\ effParam' = TRUE
    /\ UNCHANGED <<data, selected, selectedYear, fetchState, effYear, view>>
    /\ UNCHANGED resolverVars

\* a click on a bar or on a year tick of a chart: setSelectedYear(year)
ClickYear ==
  \E i \in 1..Len(view.chartData) :
    /\ Mounted /\ selected # NoTicker
    /\ selectedYear' = Num(view.chartData[i].year)
    /\ view' = render(data, selected, selectedYear')
    /\ UNCHANGED <<data, searchParam, selected, fetchState, effYear, effParam>>
    /\ UNCHANGED resolverVars

Next ==
  \/ FetchArray
  \/ FetchNotArray
  \/ FetchFailed
  \/ YearEffect
  \/ ParamEffect
  \/ Navigate
  \/ ClickYear

Spec == Init /\ [][Next]_vars

---------------------------------------------------------------------------
(* Properties of the balance sheet derivation (SpecBalance)                 *)

BalanceCalled == pc \in {"balanceTable", "balanceChartRow"}

\* the three independent lookups of the call: totalAssets by label in the
\* table and by tag in the chart series
LookupAssets ==
  IF pc = "balanceTable" THEN strictGet(facts, assetsLabels)
  ELSE getTagValue(facts, assetsTags)
LookupLiabilities == getTagValue(facts, liabilitiesTags)
LookupEquity == getTagValue(facts, equityTags)

AllResolved(m) ==
  IsNumber(m.totalAssets) /\ IsNumber(m.totalLiabilities) /\ IsNumber(m.totalEquity)

Identity(m) == m.totalAssets.v = m.totalLiabilities.v + m.totalEquity.v

\* C1: when totalAssets and explicit liabilities resolve and explicit equity
\* does not, totalEquity is exactly totalAssets - explicit liabilities and
\* totalLiabilities is the explicit liabilities (table and chart series)
C1_EquityDerived ==
  (BalanceCalled /\ IsNumber(LookupAssets) /\ IsNumber(LookupLiabilities)
     /\ ~IsNumber(LookupEquity))
  => /\ out.metrics.totalEquity = Num(LookupAssets.v - LookupLiabilities.v)
     /\ out.metrics.totalLiabilities = LookupLiabilities

\* the table has derived equity 1 from assets 2 and liabilities 1
C1_Witness ==
  /\ pc = "balanceTable"
  /\ LookupAssets = Num(2) /\ LookupLiabilities = Num(1) /\ ~IsNumber(LookupEquity)
  /\ out.metrics.totalEquity = Num(1)

\* C2 as stated: whenever at least two of totalAssets, explicit liabilities,
\* explicit equity resolve, all three metrics are resolved afterwards and
\* totalAssets = totalLiabilities + totalEquity
C2_IdentityAnyTwo ==
  (BalanceCalled
     /\ Cardinality({x \in {"a", "l", "e"} :
          IsNumber(CASE x = "a" -> LookupAssets
                     [] x = "l" -> LookupLiabilities
                     [] x = "e" -> LookupEquity)}) >= 2)
  => AllResolved(out.metrics) /\ Identity(out.metrics)

\* C2 amended: whenever totalAssets resolves together with explicit
\* liabilities or explicit equity (and, if all three resolve, the explicit
\* values already satisfy the identity), all three metrics are resolved
\* afterwards and totalAssets = totalLiabilities + totalEquity
C2_IdentityWithAssets ==
  (BalanceCalled
     /\ IsNumber(LookupAssets)
     /\ (IsNumber(LookupLiabilities) \/ IsNumber(LookupEquity))
     /\ ((IsNumber(LookupLiabilities) /\ IsNumber(LookupEquity))
           => LookupAssets.v = LookupLiabilities.v + LookupEquity.v))
  => AllResolved(out.metrics) /\ Identity(out.metrics)

\* the chart series has derived liabilities 1 from assets 2 and equity 1
C2_Witness ==
  /\ pc = "balanceChartRow"
  /\ LookupAssets = Num(2) /\ LookupEquity = Num(1) /\ ~IsNumber(LookupLiabilities)
  /\ out.metrics.totalLiabilities = Num(1)
  /\ out.entry.liabilities = Num(1)

\* C3: a balance sheet map with a numeric us-gaap_Assets fact and a numeric
\* us-gaap_Liabilities fact and no equity concept gives, in the per-year
\* table, totalAssets and totalLiabilities equal to these two values and
\* totalEquity equal to their difference, whatever the labels are
C3_EndToEndByConcept ==
  (/\ pc = "balanceTable"
   /\ HasKey(facts, <<"us-gaap_Assets">>)
   /\ IsNumber(Entry(facts, <<"us-gaap_Assets">>).value)
   /\ HasKey(facts, <<"us-gaap_Liabilities">>)
   /\ IsNumber(Entry(facts, <<"us-gaap_Liabilities">>).value)
   /\ \A j \in 1..Len(equityTags) :
        ~HasKey(facts, equityTags[j]) /\ ~HasKey(facts, DefrefKey(equityTags[j])))
  => LET a == Entry(facts, <<"us-gaap_Assets">>).value
         l == Entry(facts, <<"us-gaap_Liabilities">>).value
     IN out.metrics = [totalAssets |-> a, totalLiabilities |-> l,
                       totalEquity |-> Num(a.v - l.v)]

---------------------------------------------------------------------------
(* Properties of the tag and label lookups (SpecResolve)                    *)

\* the least element of a non-empty set of indices
Least(S) == CHOOSE i \in S : \A j \in S : i <= j

\* a fact of the map under the tag or its defref_ form has a number
TagHasNumber(map, t) ==
  \E i \in 1..Len(map) : map[i].key \in {t, DefrefKey(t)} /\ IsNumber(map[i].value)

\* that number: of the fact under the tag itself if it has one
TagNumber(map, t) ==
  LET direct == {i \in 1..Len(map) : map[i].key = t /\ IsNumber(map[i].value)}
      prefixed == {i \in 1..Len(map) : map[i].key = DefrefKey(t) /\ IsNumber(map[i].value)}
  IN IF direct # {} THEN map[Least(direct)].value ELSE map[Least(prefixed)].value

\* the maps with the entries of map in another order
Reorderings(map) ==
  {[i \in 1..Len(map) |-> map[f[i]]] :
     f \in {g \in [1..Len(map) -> 1..Len(map)] : \A i, j \in 1..Len(map) : g[i] = g[j] => i = j}}

\* C4: getTagValue returns the number of the earliest candidate that has a
\* number in the map, whatever the order of the map's keys, skipping the
\* candidates whose fact has no number; null only if no candidate has one
C4_FirstNumericCandidate ==
  pc = "getTagValue" =>
    LET hits == {j \in 1..Len(cands) : TagHasNumber(facts, cands[j])} IN
    /\ out = IF hits = {} THEN Null ELSE TagNumber(facts, cands[Least(hits)])
    /\ \A m \in Reorderings(facts) : getTagValue(m, cands) = out

\* the first candidate's fact comes first and has no value, the second
\* candidate's number is returned
C4_Witness ==
  /\ pc = "getTagValue" /\ cands = equityTags
  /\ Len(facts) = 2
  /\ facts[1].key = equityTags[1] /\ facts[1].value = Undefined
  /\ facts[2].key = equityTags[2] /\ facts[2].value = Num(2)
  /\ out = Num(2)

\* the candidates that are the normalized label of some fact
LabelHits(map, labels) ==
  {j \in 1..Len(labels) :
     \E i \in 1..Len(map) :
       map[i].label # <<>> /\ normalize(map[i].label) = normalize(labels[j])}

\* C5: when facts match different candidates, strictGet returns the value
\* of the fact matching the earliest candidate, wherever that fact is
C5_CandidateOrderWins ==
  (pc = "strictGet" /\ LabelHits(facts, cands) # {}) =>
    LET j == Least(LabelHits(facts, cands))
        i == Least({k \in 1..Len(facts) :
                      facts[k].label # <<>>
                      /\ normalize(facts[k].label) = normalize(cands[j])})
    IN out = facts[i].value

---------------------------------------------------------------------------
(* Properties of extractMetrics (SpecMetrics)                               *)

\* a candidate key is a normalized key of the map
ConceptPresent(map, keys) ==
  \E j \in 1..Len(keys), i \in 1..Len(map) : normKey(map[i].key) = toLowerCase(keys[j])

\* a keyword occurs in a lower-cased label of the map
KeywordPresent(map, keywords) ==
  \E k \in 1..Len(keywords), i \in 1..Len(map) :
    includes(toLowerCase(map[i].label), keywords[k])

\* C6: a metric is a number or unresolved; with no concept candidate and no
\* label keyword in the map, revenue (net income) is unresolved, not 0
C6_UnresolvedNotZero ==
  pc = "extractMetrics" =>
    /\ (~ConceptPresent(facts, revenueKeys) /\ ~KeywordPresent(facts, revenueLabels))
         => ~IsNumber(out.revenue)
    /\ (~ConceptPresent(facts, incomeKeys) /\ ~KeywordPresent(facts, incomeLabels))
         => ~IsNumber(out.netIncome)

\* what the concept tier yields: the value of the first entry under the
\* earliest candidate key the map has
ConceptYield(map, keys) ==
  LET J == {j \in 1..Len(keys) :
              \E i \in 1..Len(map) : normKey(map[i].key) = toLowerCase(keys[j])}
  IN IF J = {} THEN Undefined
     ELSE map[Least({i \in 1..Len(map) :
                       normKey(map[i].key) = toLowerCase(keys[Least(J)])})].value

\* what the keyword tier yields: the value of the first fact whose label
\* includes a keyword
KeywordYield(map, keywords) ==
  LET I == {i \in 1..Len(map) :
              \E k \in 1..Len(keywords) : includes(toLowerCase(map[i].label), keywords[k])}
  IN IF I = {} THEN Undefined ELSE map[Least(I)].value

TwoTier(map, keys, keywords) ==
  LET c == ConceptYield(map, keys) IN
  IF IsNumber(c) /\ c.v # 0 THEN c
  ELSE Coalesce(KeywordYield(map, keywords), Num(0))

\* C7: the result is the concept tier's number when that is non-zero,
\* whatever the labels are; the keyword tier decides exactly when the
\* concept tier yields nothing or 0
C7_TwoTiers ==
  pc = "extractMetrics" =>
    /\ out.revenue = TwoTier(facts, revenueKeys, revenueLabels)
    /\ out.netIncome = TwoTier(facts, incomeKeys, incomeLabels)

\* the concept tier yields 0 for revenue and a label gives 2; the concept
\* tier yields 1 for net income although an earlier label gives 2
C7_Witness ==
  /\ pc = "extractMetrics"
  /\ ConceptYield(facts, revenueKeys) = Num(0)
  /\ KeywordYield(facts, revenueLabels) = Num(2)
  /\ out.revenue = Num(2)

C7_WitnessConcept ==
  /\ pc = "extractMetrics"
  /\ ConceptYield(facts, incomeKeys) = Num(1)
  /\ KeywordYield(facts, incomeLabels) = Num(2)
  /\ out.netIncome = Num(1)

---------------------------------------------------------------------------
(* Properties of the period selection (SpecSelect, Spec)                    *)

YearText(y) == CASE y = 2020 -> "2020" [] y = 2021 -> "2021"

\* the date is day-month-year and its year is y
EndsInYear(date, y) ==
  Len(date) = 5 /\ date[2] = "-" /\ date[4] = "-" /\ date[5] = YearText(y)

\* C9: the report selected is the first in array order whose period-end
\* year is the target year; with no such report nothing is selected and
\* every metric resolved from the empty map is unresolved
C9_FirstMatchElseUnresolved ==
  pc \in {"chartRow", "balanceSelect"} =>
    LET I == {i \in 1..Len(reports) : EndsInYear(reports[i].date, targetYear)} IN
    IF I # {} THEN out.matched = <<reports[Least(I)]>>
    ELSE /\ out.matched = <<>>
         /\ pc = "chartRow" =>
              ~IsNumber(out.metrics.revenue) /\ ~IsNumber(out.metrics.netIncome)
         /\ pc = "balanceSelect" =>
              /\ ~IsNumber(out.metrics.totalAssets)
              /\ ~IsNumber(out.metrics.totalLiabilities)
              /\ ~IsNumber(out.metrics.totalEquity)

\* the selection alone: first match in array order, nothing otherwise
SelectionIsFirstMatch ==
  pc \in {"chartRow", "balanceSelect"} =>
    LET I == {i \in 1..Len(reports) : EndsInYear(reports[i].date, targetYear)} IN
    out.matched = IF I # {} THEN <<reports[Least(I)]>> ELSE <<>>

\* C8: each table of the selected year is computed from the report of its
\* statement whose period-end year is the selected year, and the net income
\* of the cash flow table is the net income of the income statement table
C8_TablesFromSelectedYear ==
  (Mounted /\ view.income # <<>>) =>
    LET row == selectedRowOf(data, selected, selectedYear)[1]
        m == extractMetrics(reportMapOf(matchedReport(row.income_statement.reports,
                                                      selectedYear.v)))
    IN /\ view.income[1].revenue = m.revenue
       /\ view.income[1].netIncome = m.netIncome
       /\ view.cash # <<>> => view.cash[1].netIncome = view.income[1].netIncome

\* a statement of an annual row of the selected ticker does not parse
SomeStatementMalformed ==
  \E i \in 1..Len(data) :
    /\ data[i].ticker = selected /\ data[i].quarter = 0
    /\ \/ parseThrows(data[i].income_statement)
       \/ parseThrows(data[i].balance_sheet)
       \/ parseThrows(data[i].cash_flow)

\* C10: when the JSON of one statement of a row does not parse, the render
\* still completes: each series has an entry for every annual row of the
\* selected ticker (the statement that failed counting as without reports)
C10_MalformedContained ==
  SomeStatementMalformed =>
    /\ ~view.crashed
    /\ Len(view.chartData) = Len(annualRows(data, selected))
    /\ Len(view.balanceChartData) = Len(annualRows(data, selected))
    /\ Len(view.cashFlowChartData) = Len(annualRows(data, selected))

---------------------------------------------------------------------------
(* Share extraction, stated on the labels the fact maps are built from:    *)
(* what each label says, written out by hand                               *)

SharesCalled == pc = "extractSharesOutstanding"

\* labels no pattern applies to (no label; no count; "authorized" without
\* the "in shares" flag)
SilentLabels == {<<>>, TotalAssetsLabel, UnflaggedLabel, AuthorizedLabel}

\* labels a pattern applies to although the captured text is only commas
UnparsedLabels == {MultiLabelCommas, FallbackLabelCommas}

\* the dual-count labels: the two counts and whether "in shares" is stated
DualCounts ==
  {[label |-> MultiLabel, n1 |-> 1000, n2 |-> 2000, inShares |-> FALSE],
   [label |-> MultiLabelFirstMax, n1 |-> 2000, n2 |-> 1000, inShares |-> FALSE],
   [label |-> MultiLabelInShares, n1 |-> 1000, n2 |-> 2000, inShares |-> TRUE]}

LabelKind(fact) ==
  IF fact.label \in SilentLabels THEN "silent"
  ELSE IF fact.label \in UnparsedLabels THEN "unparsed"
  ELSE IF fact.label = DirectLabel /\ ~IsNumber(fact.value) THEN "unparsed"
  ELSE "count"

\* the share count a well-formed label stands for
LabelCount(fact) ==
  CASE fact.label \in {MultiLabel, MultiLabelFirstMax} -> 2000 * Million
    [] fact.label = MultiLabelInShares -> 2000
    [] fact.label = DatedLabel -> 3 * Million
    [] fact.label = FallbackLabel -> 4 * Million
    [] fact.label = OutstandingLabel -> 6 * Million
    [] fact.label = OutstandingLabelInShares -> 7
    [] fact.label = DirectLabel -> fact.value.v
    [] fact.label = MultiDatedLabel -> 2000 * Million
    [] fact.label = FallbackDatedLabel -> 3 * Million
    [] fact.label = FallbackDirectLabel -> 4
    [] fact.label = DirectOutstandingLabel -> fact.value.v
    [] fact.label = AuthorizedOutstandingLabel -> 6 * Million

\* every entry before entry i has one of the kinds
Before(i, kinds) == \A j \in 1..(i - 1) : LabelKind(facts[j]) \in kinds

\* C11: the first label a pattern applies to is a dual-count label
\* "<N1> and <N2> shares issued and outstanding": the share count is
\* max(N1, N2) when the label contains "in shares" and max(N1, N2) * 1,000,000
\* when it does not.
C11_DualCount ==
  SharesCalled =>
    \A i \in 1..Len(facts) : \A dc \in DualCounts :
      (facts[i].label = dc.label /\ Before(i, {"silent"})) =>
        LET maxNum == IF dc.n1 >= dc.n2 THEN dc.n1 ELSE dc.n2
        IN out = Num(IF dc.inShares THEN maxNum ELSE maxNum * Million)

C11_Witness ==
  /\ SharesCalled
  /\ Len(facts) = 2
  /\ facts[1].label = AuthorizedLabel
  /\ facts[2].label = MultiLabelFirstMax
  /\ out = Num(2000 * Million)

\* C12: the first label a pattern applies to contains "shares outstanding"
\* and "in shares" and matches none of the patterns 1-3, and its fact has a
\* numeric value: the share count is that value, not multiplied.
C12_DirectValue ==
  SharesCalled =>
    \A i \in 1..Len(facts) :
      (facts[i].label = DirectLabel /\ IsNumber(facts[i].value)
         /\ Before(i, {"silent"})) =>
        out = facts[i].value

C12_Witness ==
  /\ SharesCalled
  /\ \E i \in 1..Len(facts) :
       /\ facts[i].label = DirectLabel /\ facts[i].value = Num(500)
       /\ Before(i, {"silent"})
  /\ out = Num(500)

\* C13: a label whose captured number does not parse, or an "in shares" label
\* without a numeric value, is passed over: the first well-formed label after
\* it determines the share count.
C13_ParseFailureSkipped ==
  SharesCalled =>
    \A i \in 1..Len(facts) :
      (LabelKind(facts[i]) = "count" /\ Before(i, {"silent", "unparsed"})) =>
        out = Num(LabelCount(facts[i]))

\* C16: bookValuePerShare is (totalEquity - preferredEquity) / sharesOutstanding,
\* preferredEquity 0 when unresolved, exactly when totalEquity (explicit, or
\* derived from assets and liabilities) and sharesOutstanding are numbers and
\* sharesOutstanding > 0; it is null otherwise.
C16_BookValuePerShare ==
  pc = "bookValue" =>
    LET explicit == getTagValue(facts, equityTags)
        assets == strictGet(facts, assetsLabels)
        liabilities == getTagValue(facts, liabilitiesTags)
        equity == IF IsNumber(explicit) THEN explicit
                  ELSE IF IsNumber(assets) /\ IsNumber(liabilities)
                    THEN Num(assets.v - liabilities.v)
                  ELSE explicit
        preferred == getTagValue(facts, preferredTags)
        pref == IF IsNumber(preferred) THEN preferred.v ELSE 0
        shares == out.sharesOutstanding
        b == out.bookValuePerShare
    IN /\ out.totalEquity = equity
       /\ IF IsNumber(equity) /\ IsNumber(shares) /\ shares.v > 0
            THEN b.t = "number" /\ b.d > 0 /\ b.n * shares.v = (equity.v - pref) * b.d
            ELSE b = NullRatio

C16_Witness ==
  /\ pc = "bookValue"
  /\ getTagValue(facts, equityTags) = Num(2)
  /\ getTagValue(facts, preferredTags) = Num(1)
  /\ out.sharesOutstanding = Num(500)
  /\ out.bookValuePerShare = [t |-> "number", n |-> 1, d |-> 500]

\* the equity of the book value is derived from assets and liabilities
C16_WitnessDerived ==
  /\ pc = "bookValue"
  /\ ~IsNumber(getTagValue(facts, equityTags))
  /\ out.totalEquity = Num(1)
  /\ out.sharesOutstanding = Num(4 * Million)
  /\ out.bookValuePerShare = [t |-> "number", n |-> 1, d |-> 4 * Million]

---------------------------------------------------------------------------
(* The ratios, stated on the facts of the map                               *)

\* the value stored under the key k, undefined when there is none
ValueAt(k) == IF HasKey(facts, k) THEN Entry(facts, k).value ELSE Undefined

\* the number of a resolved value, 0 for an unresolved one
NumberOr0(x) == IF IsNumber(x) THEN x.v ELSE 0

\* the ratio q is the quotient a / b * 100 of the integers a and b # 0
IsPercentOf(q, a, b) == q.t = "number" /\ q.d > 0 /\ q.n * b = a * 100 * q.d

\* C14: netProfitMargin is netIncome / revenue * 100 when revenue is resolved
\* and not 0, and is null (not NaN, not Infinity, not 0) when revenue is 0 or
\* unresolved.
C14_NetProfitMargin ==
  pc = "incomeTable" =>
    LET revenue == ValueAt(<<"us-gaap_Revenues">>)
        netIncome == ValueAt(<<"us-gaap_NetIncomeLoss">>)
    IN IF IsNumber(revenue) /\ revenue.v # 0
         THEN /\ out.revenue = revenue
              /\ IsNumber(netIncome) => out.netIncome = netIncome
              /\ IsPercentOf(out.netProfitMargin, out.netIncome.v, revenue.v)
         ELSE out.netProfitMargin = NullRatio

C14_Witness ==
  /\ pc = "incomeTable"
  /\ ValueAt(<<"us-gaap_Revenues">>) = Num(3)
  /\ ValueAt(<<"us-gaap_NetIncomeLoss">>) = Num(-1)
  /\ out.netProfitMargin = [t |-> "number", n |-> -100, d |-> 3]

\* revenue 0: the margin is not computed
C14_WitnessZero ==
  /\ pc = "incomeTable"
  /\ ValueAt(<<"us-gaap_Revenues">>) = Num(0)
  /\ ValueAt(<<"us-gaap_NetIncomeLoss">>) = Num(1)
  /\ out.netProfitMargin = NullRatio

\* C15: effectiveTaxRate is incomeTax / preTaxIncome * 100 with its sign when
\* both are resolved and preTaxIncome is not 0, and null otherwise.
C15_EffectiveTaxRate ==
  pc = "incomeTable" =>
    LET incomeTax == ValueAt(incomeTaxTags[1])
        preTaxIncome == ValueAt(preTaxIncomeTags[7])
    IN IF IsNumber(incomeTax) /\ IsNumber(preTaxIncome) /\ preTaxIncome.v # 0
         THEN IsPercentOf(out.effectiveTaxRate, incomeTax.v, preTaxIncome.v)
         ELSE out.effectiveTaxRate = NullRatio

C15_Witness ==
  /\ pc = "incomeTable"
  /\ ValueAt(incomeTaxTags[1]) = Num(1)
  /\ ValueAt(preTaxIncomeTags[7]) = Num(-2)
  /\ out.effectiveTaxRate = [t |-> "number", n |-> -50, d |-> 1]

\* C18: operatingExpense is the direct total when one resolves (0 included);
\* otherwise the sum of the components that resolve, and null only when none
\* does.
C18_OperatingExpense ==
  pc = "incomeTable" =>
    LET total == ValueAt(operatingTotalTags[2])
        c1 == ValueAt(componentTags[1])
        c5 == ValueAt(componentTags[5])
    IN IF IsNumber(total) THEN out.operatingExpense = total
       ELSE IF ~IsNumber(c1) /\ ~IsNumber(c5) THEN out.operatingExpense = Null
       ELSE out.operatingExpense = Num(NumberOr0(c1) + NumberOr0(c5))

\* a partial sum: one component resolves, the other is present without a value
C18_Witness ==
  /\ pc = "incomeTable"
  /\ ~HasKey(facts, operatingTotalTags[2])
  /\ ValueAt(componentTags[1]) = Num(-2)
  /\ HasKey(facts, componentTags[5]) /\ ValueAt(componentTags[5]) = Undefined
  /\ out.operatingExpense = Num(-2)

\* the direct total is 0 and a component resolves
C18_WitnessTotal ==
  /\ pc = "incomeTable"
  /\ ValueAt(operatingTotalTags[2]) = Num(0)
  /\ ValueAt(componentTags[1]) = Num(3)
  /\ out.operatingExpense = Num(0)

\* C17: freeCashFlow is netOperatingCashFlow - |capexOutflows + capexProceeds|
\* whenever netOperatingCashFlow and at least one capex component resolve,
\* also when the resolved components are 0 or cancel; it is null otherwise.
C17_FreeCashFlow ==
  pc = "freeCashFlow" =>
    LET netOperating == ValueAt(netOperatingTags[1])
        parts == <<ValueAt(capexOutflowTags[1]), ValueAt(capexOutflowTags[2]),
                   ValueAt(capexProceedsTags[1])>>
        netCapex == NumberOr0(parts[1]) + NumberOr0(parts[2]) + NumberOr0(parts[3])
    IN IF IsNumber(netOperating) /\ \E i \in 1..3 : IsNumber(parts[i])
         THEN out.freeCashFlow = Num(netOperating.v - Abs(netCapex))
         ELSE out.freeCashFlow = Null

\* the same without the cases where the outflows and the proceeds both sum to 0
FreeCashFlowNonZeroCapex ==
  pc = "freeCashFlow" =>
    LET netOperating == ValueAt(netOperatingTags[1])
        outflows == NumberOr0(ValueAt(capexOutflowTags[1]))
                    + NumberOr0(ValueAt(capexOutflowTags[2]))
        proceeds == NumberOr0(ValueAt(capexProceedsTags[1]))
    IN IF IsNumber(netOperating) /\ (outflows # 0 \/ proceeds # 0)
         THEN out.freeCashFlow = Num(netOperating.v - Abs(outflows + proceeds))
         ELSE out.freeCashFlow = Null

---------------------------------------------------------------------------
(* Label normalization, stated on the words of a label: the runs of tokens  *)
(* between blanks, letters folded to lower case and curly quotes to "'"     *)

FoldTok(tok) == IF tok \in {"rsquo", "lsquo"} THEN "'" ELSE LowerTok(tok)

RECURSIVE WordsFrom(_, _, _, _)
WordsFrom(str, i, word, acc) ==
  LET closed == IF word = <<>> THEN acc ELSE Append(acc, word)
  IN IF i > Len(str) THEN closed
     ELSE IF IsSpace(str[i]) THEN WordsFrom(str, i + 1, <<>>, closed)
     ELSE WordsFrom(str, i + 1, Append(word, FoldTok(str[i])), acc)

Words(str) == WordsFrom(str, 1, <<>>, <<>>)

\* a and b differ only in case, curly or straight quotes, and blanks
SameLabel(a, b) == Words(a) = Words(b)

KnownLabels ==
  {TotalAssetsLabel, AssetsLabel, <<"total", " ", "nbsp", "assets", " ">>,
   CurlyEquityLabel, StraightEquityLabel, SpacedEquityLabel, UnquotedEquityLabel}

\* C20: labels that differ only in letter case, curly versus straight single
\* quotes, runs of whitespace (non-breaking space included) and leading or
\* trailing whitespace normalize to the same string, and strictGet with one
\* of them as candidate returns the value of the first fact labelled with
\* another.
C20_NormalizeEquates ==
  /\ \A a, b \in KnownLabels : SameLabel(a, b) => normalize(a) = normalize(b)
  /\ pc = "strictGet" =>
       \A i \in 1..Len(facts) :
         LET Hit(j) == /\ facts[j].label # <<>>
                       /\ \E c \in 1..Len(cands) : SameLabel(facts[j].label, cands[c])
         IN (Hit(i) /\ \A j \in 1..(i - 1) : ~Hit(j)) => out = facts[i].value

C20_Witness ==
  /\ pc = "strictGet"
  /\ cands = <<StraightEquityLabel>>
  /\ Len(facts) = 2
  /\ facts[1].label = UnquotedEquityLabel /\ facts[1].value = Num(1)
  /\ facts[2].label = CurlyEquityLabel /\ facts[2].value = Num(2)
  /\ out = Num(2)

\* the candidate has the curly quote and extra blanks, the label is plain
C20_WitnessSpaced ==
  /\ pc = "strictGet"
  /\ cands = <<SpacedEquityLabel>>
  /\ Len(facts) = 1
  /\ facts[1].label = StraightEquityLabel
  /\ out = facts[1].value

---------------------------------------------------------------------------
(* Determinism of the resolvers                                             *)

C19_WitnessShares ==
  /\ pc = "extractSharesOutstanding"
  /\ Len(out) = 2
  /\ out[2] = Num(2000 * Million)

---------------------------------------------------------------------------
(* The balance sheet derivation with fewer than two data points, and with   *)
(* explicit lines that disagree (SpecBalance)                               *)

\* how many of totalAssets, explicit liabilities, explicit equity resolve
ResolvedLookups ==
  Cardinality({x \in {"a", "l", "e"} :
     IsNumber(CASE x = "a" -> LookupAssets
                [] x = "l" -> LookupLiabilities
                [] x = "e" -> LookupEquity)})

\* C21: when fewer than two of totalAssets, explicit liabilities and explicit
\* equity resolve, nothing is derived: each of totalAssets, totalLiabilities,
\* totalEquity is a number exactly when its own lookup is one, and is then
\* that number.
C21_NoGuessFromOne ==
  (BalanceCalled /\ ResolvedLookups < 2) =>
    /\ IsNumber(out.metrics.totalAssets) <=> IsNumber(LookupAssets)
    /\ IsNumber(out.metrics.totalLiabilities) <=> IsNumber(LookupLiabilities)
    /\ IsNumber(out.metrics.totalEquity) <=> IsNumber(LookupEquity)
    /\ IsNumber(LookupAssets) => out.metrics.totalAssets = LookupAssets
    /\ IsNumber(LookupLiabilities) => out.metrics.totalLiabilities = LookupLiabilities
    /\ IsNumber(LookupEquity) => out.metrics.totalEquity = LookupEquity

\* only totalAssets resolves, the liabilities and equity facts have no value
C21_Witness ==
  /\ pc = "balanceTable"
  /\ LookupAssets = Num(2)
  /\ HasKey(facts, <<"us-gaap_Liabilities">>) /\ ~IsNumber(LookupLiabilities)
  /\ HasKey(facts, <<"us-gaap_StockholdersEquity">>) /\ ~IsNumber(LookupEquity)
  /\ out.metrics.totalAssets = Num(2)
  /\ ~IsNumber(out.metrics.totalLiabilities)
  /\ ~IsNumber(out.metrics.totalEquity)

\* C22: explicit liabilities that resolve (0 included) are totalLiabilities,
\* and explicit equity that resolves (0 included) is totalEquity, also when
\* the three explicit values do not satisfy assets = liabilities + equity.
C22_ExplicitFirst ==
  BalanceCalled =>
    /\ IsNumber(LookupLiabilities) => out.metrics.totalLiabilities = LookupLiabilities
    /\ IsNumber(LookupEquity) => out.metrics.totalEquity = LookupEquity

\* the three explicit values 2, 0, 1 do not add up and are kept
C22_Witness ==
  /\ pc = "balanceChartRow"
  /\ LookupAssets = Num(2) /\ LookupLiabilities = Num(0) /\ LookupEquity = Num(1)
  /\ out.metrics = [totalAssets |-> Num(2), totalLiabilities |-> Num(0),
                    totalEquity |-> Num(1)]

---------------------------------------------------------------------------
(* Concept lookup against the normalized keys (SpecResolve)                 *)

\* the facts with a number whose normalized key is the lower-cased candidate
NormHits(map, c) ==
  {i \in 1..Len(map) : normKey(map[i].key) = toLowerCase(c) /\ IsNumber(map[i].value)}

\* C23: the tag lookup compares lower-cased candidates with lower-cased fact
\* keys without their defref_ prefix: the first candidate that a fact with a
\* number equals in that view decides, and the result is such a fact's number.
C23_NormalizedKeyView ==
  pc = "getTagValue" =>
    \A k \in 1..Len(cands) :
      (/\ NormHits(facts, cands[k]) # {}
       /\ \A j \in 1..(k - 1) : NormHits(facts, cands[j]) = {})
      => \E i \in NormHits(facts, cands[k]) : out = facts[i].value

\* the same for the keys the lookup does find: the tag itself, and the tag
\* under a lower-case defref_
C23_ExactKeysFound ==
  pc = "getTagValue" =>
    \A k \in 1..Len(cands) :
      (/\ TagHasNumber(facts, cands[k])
       /\ \A j \in 1..(k - 1) : NormHits(facts, cands[j]) = {})
      => \E i \in NormHits(facts, cands[k]) : out = facts[i].value

---------------------------------------------------------------------------
(* The two tiers of extractMetrics, each on its own (SpecMetrics)           *)

\* the first number in candidate priority order: the number of a fact under
\* the earliest candidate key that some fact carries with a number
FirstNumericConcept(map, keys) ==
  LET J == {j \in 1..Len(keys) : NormHits(map, keys[j]) # {}}
  IN IF J = {} THEN Undefined
     ELSE map[Least(NormHits(map, keys[Least(J)]))].value

\* C24: the concept tier yields the first number in candidate priority
\* order; a candidate whose fact has no number does not stop the search, so
\* a non-zero number under a later candidate is the metric.
C24_FirstNumericConcept ==
  pc = "extractMetrics" =>
    /\ LET c == FirstNumericConcept(facts, revenueKeys) IN
         (IsNumber(c) /\ c.v # 0) => out.revenue = c
    /\ LET c == FirstNumericConcept(facts, incomeKeys) IN
         (IsNumber(c) /\ c.v # 0) => out.netIncome = c

\* the search does go on past candidates that no fact carries
C24_AbsentCandidateSkipped ==
  pc = "extractMetrics" =>
    LET c == FirstNumericConcept(facts, revenueKeys) IN
      (IsNumber(c) /\ c.v # 0 /\ IsNumber(ConceptYield(facts, revenueKeys)))
        => out.revenue = ConceptYield(facts, revenueKeys)

\* C25: with no concept candidate in the map, the metric is the value of the
\* first fact in map order whose label includes a keyword, whatever facts
\* follow it, and is unresolved when that fact has no number or no label
\* includes a keyword.
C25_FirstLabelledFact ==
  pc = "extractMetrics" =>
    /\ ~ConceptPresent(facts, revenueKeys) =>
         LET y == KeywordYield(facts, revenueLabels) IN
           IF IsNumber(y) THEN out.revenue = y ELSE ~IsNumber(out.revenue)
    /\ ~ConceptPresent(facts, incomeKeys) =>
         LET y == KeywordYield(facts, incomeLabels) IN
           IF IsNumber(y) THEN out.netIncome = y ELSE ~IsNumber(out.netIncome)

\* the first labelled fact decides, with 0 where the statement above has
\* unresolved
C25_FirstLabelledFactOrZero ==
  pc = "extractMetrics" =>
    /\ ~ConceptPresent(facts, revenueKeys) =>
         out.revenue = Coalesce(KeywordYield(facts, revenueLabels), Num(0))
    /\ ~ConceptPresent(facts, incomeKeys) =>
         out.netIncome = Coalesce(KeywordYield(facts, incomeLabels), Num(0))

---------------------------------------------------------------------------
(* The order of the share patterns and of the labels (SpecShares)           *)

NoMatch == <<>>
Yields(n) == <<Num(n)>>
Unparsed == <<Null>>

\* read off the five patterns by hand: what each pattern, applied alone to
\* the label of the fact, yields (NoMatch when it does not apply; pattern 3
\* does not apply to a label with "authorized")
PatternYield(fact) ==
  LET l == fact.label
      direct == <<IF IsNumber(fact.value) THEN fact.value ELSE Null>>
  IN CASE l \in {MultiLabel, MultiLabelFirstMax} ->
            <<Yields(2000 * Million), NoMatch,
              Yields((IF l = MultiLabel THEN 2000 ELSE 1000) * Million), NoMatch, NoMatch>>
       [] l = MultiLabelInShares ->
            <<Yields(2000), NoMatch, Yields(2000), NoMatch, NoMatch>>
       [] l = MultiLabelCommas ->
            <<Unparsed, NoMatch, Yields(2000 * Million), NoMatch, NoMatch>>
       [] l = MultiDatedLabel ->
            <<Yields(2000 * Million), Yields(1000 * Million), Yields(1000 * Million),
              NoMatch, NoMatch>>
       [] l = DatedLabel ->
            <<NoMatch, Yields(3 * Million), Yields(3 * Million), NoMatch, NoMatch>>
       [] l = FallbackDatedLabel ->
            <<NoMatch, Yields(3 * Million), Yields(4 * Million), NoMatch, NoMatch>>
       [] l = FallbackLabel ->
            <<NoMatch, NoMatch, Yields(4 * Million), NoMatch, NoMatch>>
       [] l = FallbackLabelCommas ->
            <<NoMatch, NoMatch, Unparsed, NoMatch, NoMatch>>
       [] l = FallbackDirectLabel ->
            <<NoMatch, NoMatch, Yields(4), direct, NoMatch>>
       [] l = DirectLabel ->
            <<NoMatch, NoMatch, NoMatch, direct, NoMatch>>
       [] l = DirectOutstandingLabel ->
            <<NoMatch, NoMatch, NoMatch, direct, Yields(7)>>
       [] l = OutstandingLabel ->
            <<NoMatch, NoMatch, NoMatch, NoMatch, Yields(6 * Million)>>
       [] l = OutstandingLabelInShares ->
            <<NoMatch, NoMatch, NoMatch, NoMatch, Yields(7)>>
       [] l = AuthorizedOutstandingLabel ->
            <<NoMatch, NoMatch, NoMatch, NoMatch, Yields(6 * Million)>>
       [] OTHER -> <<NoMatch, NoMatch, NoMatch, NoMatch, NoMatch>>

\* the patterns that apply to the label of the fact
PatternsOf(fact) == {n \in 1..5 : PatternYield(fact)[n] # NoMatch}

\* C26: the share count is decided by the first label in map order that a
\* pattern applies to, and within that label by the lowest-numbered pattern
\* that applies; it is unresolved when no pattern applies to any label.
C26_PatternAndLabelOrder ==
  SharesCalled =>
    LET I == {i \in 1..Len(facts) : PatternsOf(facts[i]) # {}}
    IN IF I = {} THEN ~IsNumber(out)
       ELSE out = PatternYield(facts[Least(I)])[Least(PatternsOf(facts[Least(I)]))][1]

\* patterns 4 and 5 apply to the first label and pattern 4 decides; the label
\* that follows would give another count
C26_Witness ==
  /\ SharesCalled
  /\ Len(facts) = 2
  /\ facts[1].label = DirectOutstandingLabel
  /\ facts[2].label = MultiDatedLabel
  /\ out = Num(1)

\* patterns 1, 2 and 3 apply to the label and pattern 1 decides
C26_WitnessDual ==
  /\ SharesCalled
  /\ Len(facts) = 2
  /\ facts[1].label = AuthorizedLabel
  /\ facts[2].label = MultiDatedLabel
  /\ out = Num(2000 * Million)

---------------------------------------------------------------------------
(* The normalized key of a fact (SpecKeys)                                  *)

KeysCalled == pc = "normalizedEntries"

\* the key begins with defref_ in some letter case
LeadingDefref(key) == LowerTok(key[1]) = "defref_"

\* defref_ occurs in the key after its start
InnerDefref(key) == \E p \in 2..Len(key) : LowerTok(key[p]) = "defref_"

\* C27: the normalized key is the lower-cased key without a leading defref_;
\* a key that does not begin with defref_, also one that contains defref_
\* further on, is only lower-cased, and normalizing that result again
\* changes nothing.
C27_LeadingPrefixOnly ==
  KeysCalled =>
    LET key == facts[1].key IN
      /\ LeadingDefref(key) => out.once = Tail(toLowerCase(key))
      /\ ~LeadingDefref(key) =>
           (out.once = toLowerCase(key) /\ out.twice = out.once)

\* the same for the keys that do not contain defref_ after their start
C27_NoInnerPrefix ==
  KeysCalled =>
    LET key == facts[1].key IN
      ~InnerDefref(key) =>
        /\ LeadingDefref(key) => out.once = Tail(toLowerCase(key))
        /\ ~LeadingDefref(key) =>
             (out.once = toLowerCase(key) /\ out.twice = out.once)

---------------------------------------------------------------------------
(* The rows behind the chart series and the tables (Spec)                   *)

\* the loaded rows of the selected ticker with quarter 0
AnnualIdx == {i \in 1..Len(data) : data[i].ticker = selected /\ data[i].quarter = 0}

\* the series S has one entry per annual row of the selected ticker, year by
\* year, in non-decreasing order of year
OnePerAnnualRow(S) ==
  /\ Len(S) = Cardinality(AnnualIdx)
  /\ \A y \in Years :
       Cardinality({k \in 1..Len(S) : S[k].year = y})
         = Cardinality({i \in AnnualIdx : data[i].year = y})
  /\ \A k \in 1..(Len(S) - 1) : S[k].year <= S[k + 1].year

\* C28: in every render, each of the three chart series has exactly one
\* entry for every loaded quarter-0 row of the selected ticker, computed from
\* such a row, none for other rows, in non-decreasing order of year; the
\* tables are shown only for a quarter-0 row of the selected ticker and the
\* selected year, and are computed from it.
C28_AnnualRowsOnly ==
  Mounted =>
    /\ OnePerAnnualRow(view.chartData)
    /\ OnePerAnnualRow(view.balanceChartData)
    /\ OnePerAnnualRow(view.cashFlowChartData)
    /\ \A k \in 1..Len(view.chartData) : \E i \in AnnualIdx :
         view.chartData[k] = chartRow(data[i].income_statement.reports, data[i].year)
    /\ \A k \in 1..Len(view.cashFlowChartData) : \E i \in AnnualIdx :
         view.cashFlowChartData[k] = cashFlowChartRow(data[i].cash_flow.reports, data[i].year)
    /\ (view.income # <<>> \/ view.balance # <<>> \/ view.cash # <<>>) =>
         \E i \in AnnualIdx :
           /\ Num(data[i].year) = selectedYear
           /\ view.income = <<incomeTable(data[i])>>
           /\ view.balance = <<balanceTableOf(data[i], data[i].year)>>

\* a quarterly row and an annual row of the selected ticker are loaded: the
\* series have the one entry of the annual row, and the tables show it
C28_Witness ==
  /\ Mounted
  /\ Len(data) = 2
  /\ data[1].ticker = selected /\ data[1].quarter = 1
  /\ data[2].ticker = selected /\ data[2].quarter = 0
  /\ Len(view.chartData) = 1 /\ view.chartData[1].year = data[2].year
  /\ Len(view.balanceChartData) = 1 /\ Len(view.cashFlowChartData) = 1
  /\ view.income # <<>>

\* annual rows of 2021 and then 2020 are loaded: the series are by year
C28_WitnessSorted ==
  /\ Mounted
  /\ Len(data) = 2
  /\ data[1].ticker = selected /\ data[1].quarter = 0 /\ data[1].year = 2021
  /\ data[2].ticker = selected /\ data[2].quarter = 0 /\ data[2].year = 2020
  /\ Len(view.chartData) = 2
  /\ view.chartData[1].year = 2020 /\ view.chartData[2].year = 2021

---------------------------------------------------------------------------
(* The chart series against the tables of the selected year (Spec)          *)

\* the tables of the selected year are shown, for the only annual row of
\* that year
TablesOfOneRow ==
  /\ Mounted /\ view.income # <<>> /\ view.balance # <<>>
  /\ Cardinality({i \in AnnualIdx : Num(data[i].year) = selectedYear}) = 1

\* the balance series entry of the selected year is the balance sheet table
BalanceSeriesIsTable ==
  TablesOfOneRow =>
    \A k \in 1..Len(view.balanceChartData) :
      Num(view.balanceChartData[k].year) = selectedYear =>
        /\ view.balanceChartData[k].assets = Num(NumberOr0(view.balance[1].totalAssets))
        /\ view.balanceChartData[k].liabilities
             = Num(NumberOr0(view.balance[1].totalLiabilities))
        /\ view.balanceChartData[k].equity = Num(NumberOr0(view.balance[1].totalEquity))

\* the income series entry of the selected year is the income table
IncomeSeriesIsTable ==
  TablesOfOneRow =>
    \A k \in 1..Len(view.chartData) :
      Num(view.chartData[k].year) = selectedYear =>
        /\ view.chartData[k].revenue = view.income[1].revenue
        /\ view.chartData[k].netIncome = view.income[1].netIncome

\* C29: for the annual row of the selected ticker and year, the assets,
\* liabilities and equity of the balance series entry equal the totalAssets,
\* totalLiabilities and totalEquity of the balance sheet table (0 for
\* unresolved), and the revenue and netIncome of the income series entry
\* equal those of the income table.
C29_SeriesAgreeWithTables == BalanceSeriesIsTable /\ IncomeSeriesIsTable

---------------------------------------------------------------------------
(* The selected year under loads, ticker changes and clicks (Spec)          *)

\* the years of the loaded annual rows of the selected ticker
AnnualYears == {data[i].year : i \in AnnualIdx}

\* no effect is pending
EffectsDone == Mounted /\ ~effYear /\ ~effParam

\* once the effects have run, the selected year is the year of an annual row
\* of the selected ticker, when there is one
YearOfAnAnnualRow ==
  (EffectsDone /\ selected # NoTicker /\ AnnualYears # {}) =>
    (IsNumber(selectedYear) /\ selectedYear.v \in AnnualYears)

\* the step is a run of the effect on [selected, data]
YearEffectRan == effYear /\ ~effYear'

\* the effect sets the largest year of the annual rows, and nothing when
\* there is no ticker or no annual row
EffectSetsMaximum ==
  YearEffectRan =>
    IF selected # NoTicker /\ AnnualYears # {}
      THEN /\ IsNumber(selectedYear')
           /\ selectedYear'.v \in AnnualYears
           /\ \A y \in AnnualYears : y <= selectedYear'.v
      ELSE selectedYear' = selectedYear

\* the effect is due after a data load and after a change of the ticker, and
\* only then
EffectAfterLoadOrTicker ==
  /\ ((fetchState = "pending" /\ data' # data) \/ selected' # selected) => effYear'
  /\ (~effYear /\ effYear') =>
       (selected' # selected \/ (fetchState = "pending" /\ fetchState' = "done"))

\* apart from the effect, the selected year changes only to a year of the
\* chart that was clicked, with the ticker and the rows as they were
OnlyClicksReplace ==
  (selectedYear' # selectedYear /\ ~YearEffectRan) =>
    /\ \E k \in 1..Len(view.chartData) : selectedYear' = Num(view.chartData[k].year)
    /\ selected' = selected /\ data' = data /\ effYear' = effYear

\* the rows change only when the pending fetch ends, they are set to the
\* empty list by a response that is not an array and left alone by a fetch
\* that fails
RowsFromTheFetch ==
  /\ data' # data => (fetchState = "pending" /\ fetchState' = "done")
  /\ FetchNotArray => data' = <<>>
  /\ FetchFailed => (data' = data /\ fetchState' = "done")

\* C30: under any sequence of data load, ticker change and year click, once
\* the pending effects have run and the selected ticker has a loaded annual
\* row, selectedYear is the year of one of its annual rows; the effect that
\* follows a data load or a change of the selected ticker sets it to the
\* largest such year, and a click on a year of the chart replaces it until
\* that effect runs again. A failed fetch leaves the rows unchanged and a
\* response that is not an array sets them to the empty list.
C30_YearSelection ==
  /\ []YearOfAnAnnualRow
  /\ [][/\ EffectSetsMaximum
        /\ EffectAfterLoadOrTicker
        /\ OnlyClicksReplace
        /\ RowsFromTheFetch]_vars

\* annual rows of 2021 and 2020 are loaded, the effect selected 2021, and a
\* click replaced it by 2020
C30_Witness ==
  /\ EffectsDone
  /\ selected = "AAA"
  /\ AnnualYears = {2020, 2021}
  /\ selectedYear = Num(2020)
  /\ view.income # <<>>

\* rows of two tickers are loaded and the effect selected the year of the
\* annual row of the ticker of the URL
C30_WitnessTicker ==
  /\ EffectsDone
  /\ selected = "BBB" /\ searchParam = "BBB"
  /\ AnnualYears = {2021}
  /\ \E i \in 1..Len(data) : data[i].ticker = "AAA" /\ data[i].year = 2020
  /\ selectedYear = Num(2021)

====
